---- MODULE Spec2Model ----
(***************************************************************************)
(* Model of the bargAIner pipeline.                                        *)
(*                                                                         *)
(*  Backend (src/be/src/index.ts, src/be/src/agent_loop.ts):               *)
(*    POST /agent/run starts runAgentLoop without awaiting it, runAgentLoop *)
(*    awaits negotiationAgent.generate and then pushes to jobStore and     *)
(*    messageHistory, GET /agent/poll shifts jobStore.                     *)
(*                                                                         *)
(*  Transcription session (src/unnamed/part_002, class ElevenLabsWebSocket *)
(*    with keepalive): connect / onopen / onerror / onclose / disconnect / *)
(*    sendAudioChunk / the keepalive interval.                             *)
(*                                                                         *)
(*  Node and the browser run every handler to completion, so one handler   *)
(*  (up to its first await) is one action.                                 *)
(***************************************************************************)
EXTENDS Integers, Sequences, FiniteSets, TLC

(***************************************************************************)
(* Bounds of the model.                                                    *)
(***************************************************************************)
MaxRequests == 3
MaxPolls == 3
MaxSockets == 2
MaxTicks == 1
MaxAudio == 1
MaxMessages == 2
MaxDisconnects == 2
MaxObjects == 2
MaxAppMessages == 2
MaxPrefetches == 1
MaxCaptured == 3
MaxCancel == 1
MaxStarts == 2
MaxStops == 1
MaxFrames == 1
MaxLevelCalls == 1
MaxSamples == 2
Scale == 4
MaxChunks == 2
MaxAdds == 4
MaxFlushes == 2
MaxClears == 1

\* Transcripts a request body may carry.  "" stands for every falsy
\* transcript (empty string or missing field): index.ts:93 tests !transcript.
Transcripts == {"", "a", "b"}

\* Texts generate() may resolve with (result.text); "" is an empty response.
Texts == {"", "x"}

VARIABLES
    \* ---- backend: module-level state of agent_loop.ts ----
    jobStore,        \* agent_loop.ts:152  string[]; each entry tagged with its job
    messageHistory,  \* agent_loop.ts:155  {role, content}[]; each entry tagged with its job
    \* ---- backend: one runAgentLoop invocation per accepted request ----
    transcriptOf,    \* job -> current_transcript argument
    call,            \* job -> state of negotiationAgent.generate: "inflight" | "ok" | "threw"
    loopPromise,     \* job -> state of the promise runAgentLoop returned
    \* ---- backend: what the HTTP clients have observed ----
    responses,       \* replies of POST /agent/run, in request order
    pollLog,         \* return values of poll(), in call order: <<>> is undefined
    \* ---- backend: history variables ----
    doneOrder,       \* the results of generate, tagged with their job, in completion order
    phased,          \* TRUE while the run is: enqueues, then completions, then polls
    \* ---- transcription session: fields of ElevenLabsWebSocket (part_002:21-25) ----
    ws,                \* this.ws: NoSocket (null) or the socket it refers to
    isConnected,       \* this.isConnected
    keepaliveInterval, \* this.keepaliveInterval: NoTimer (null) or a timer id
    silentChunk,       \* this.silentChunk is not null
    \* ---- transcription session: the browser's objects ----
    readyState,        \* socket -> WebSocket.readyState, one entry per new WebSocket
    established,       \* sockets whose open event was dispatched
    timers,            \* ids of the setInterval timers not yet cleared
    promise,           \* socket -> state of the promise its connect() returned
    \* ---- transcription session: what was observed ----
    sent,              \* socket -> frames passed to ws.send, "audio" or "silence"
    earlyReturns,      \* connect() calls that returned at part_002:60-63
    audioCalls,        \* sendAudioChunk calls made by the capture callback
    ticks,             \* keepalive interval callbacks run
    \* ---- transcription session: history variables ----
    disconnected,      \* sockets this.ws referred to when disconnect() closed it
    realSinceTick,     \* a real audio frame was sent since the last tick (or arming)
    \* ---- transcription session: connect() arguments kept by the object ----
    source,            \* this.source (part_002:34, :66)
    callbacks,         \* this.callbacks (part_002:22, :65): "app" all four, "none" {}
    \* ---- transcription session: inbound messages and what they caused ----
    msgLog,            \* message events dispatched, in arrival order: [sock, msg]
    cbLog,             \* callbacks invoked, in order: [cb, src, text, msg]
    posts,             \* fetch(POST /agent/run) calls made, in order: [msg, text, src]
    pendingFetch,      \* messages whose handleMessage awaits its fetch
    earlyResult,       \* how the promise of the last early connect() return settled
    disconnectCalls,   \* disconnect() calls made
    connArgs,          \* socket -> the source and callbacks of the connect() that made it
    errored,           \* sockets whose error event was dispatched
    \* ---- the App (part_003:14-30) and the sessions it created ----
    objs,              \* ElevenLabsWebSocket objects made:
                       \*   [tag, source, rs, est, then, token, systemToken]
    micWsRef,          \* micWsRef.current: NoObject (null) or an object
    systemWsRef,       \* systemWsRef.current
    isListening,       \* React state isListening
    appLog,            \* wsCallbacks invoked so far: [obj, cb, src]
    appPosts,          \* fetch(POST /agent/run) calls of the sessions so far: [obj, src]
    appPending,        \* committed messages whose fetch has not settled: [id, obj]
    appMsgs,           \* messages the sessions received
    elevenLabsTokensRef, \* elevenLabsTokensRef.current: [mic, system], NoToken is null
    isReady,           \* React state isReady
    prefetches,        \* prefetchTokens calls awaiting their fetches or their retry timer
    tokensFetched,     \* token pairs the backend has handed out
    isPaused,          \* React state isPaused
    isPausedRef,       \* isPausedRef.current
    \* ---- the frames the capture hands to handleAudioData ----
    variant,           \* the App mounted: "dual" (part_003) or "mixed" (App.tsx)
    elevenLabsWsRef,   \* App.tsx: elevenLabsWsRef.current
    elevenLabsTokenRef, \* App.tsx: elevenLabsTokenRef.current
    captured,          \* source -> frames the capture produced so far
    wire,              \* frames passed to ws.send, in order: [obj, src, n]
    lastFrame,         \* the last frame handled and the objects it was sent on
    \* ---- history of the cancellations ----
    cancelled,         \* "stop": stop() was called with the session open and its
                       \* keepalive armed; "disconnect": disconnect() was called
                       \* with an advisory call in flight
    \* ---- AudioCapture: its fields (audioCapture.ts:201-210, :301-302) ----
    audioContext,        \* NoHandle (null) or a context
    micStream,           \* NoHandle or a stream
    systemStream,
    mixedProcessor,      \* NoHandle or a processor
    micProcessor,
    systemProcessor,
    micGainNode,         \* NoGain (null) or the gain of the node, in tenths
    systemGainNode,
    isCapturing,
    onAudioDataCallback, \* NoHandle or the start() call whose argument it is
    \* ---- AudioCapture: the browser's objects and the calls in progress ----
    streams,             \* stream -> "live" | "stopped"
    contexts,            \* context -> "running" | "closing" | "closed"
    procs,               \* processor -> [kind, live, ctx]
    startCalls,          \* start() calls: [pc, result, whileRunning, cause]
    stopCalls,           \* stop() calls awaiting audioContext.close(): [ctx, for]
    stopsMade,           \* stop() calls made from outside
    frames,              \* the frames handed to the callback so far: [src, cb]
    levelCalls,          \* setMicLevel / setSystemAudioLevel calls made: [which, level]
    \* ---- convertToPCM16 ----
    float32Array,        \* the argument: samples [nan, n], n in units of 1 / Scale
    int16Array,          \* the Int16Array returned
    converted,           \* convertToPCM16 has returned
    \* ---- AudioBuffer (elevenLabsWebSocket.ts:323-360) ----
    maxChunks,           \* this.maxChunks
    chunkBuffer,         \* this.buffer: Int16Array[]
    adds,                \* the chunks passed to add(), in call order
    returns,             \* what add() and flush() returned: [op, val], val <<>> is null
    clears               \* clear() calls made

beVars == <<jobStore, messageHistory, transcriptOf, call, loopPromise,
            responses, pollLog, doneOrder, phased>>

\* what the message handlers write
msgVars == <<msgLog, cbLog, posts, pendingFetch>>

\* what only connect() writes
argVars == <<source, callbacks, earlyResult>>

wsVars == <<ws, isConnected, keepaliveInterval, silentChunk, readyState, established,
            timers, promise, sent, earlyReturns, audioCalls, ticks, disconnected,
            realSinceTick, argVars, msgVars, disconnectCalls, connArgs, errored>>

\* what prefetchTokens and stopAndGetFeedback write
tokenVars == <<elevenLabsTokensRef, isReady, prefetches, tokensFetched>>

pauseVars == <<isPaused, isPausedRef>>

appVars == <<objs, micWsRef, systemWsRef, isListening, appLog, appPosts, appPending,
             appMsgs, tokenVars, pauseVars>>

\* what handleAudioData writes
frameVars == <<captured, wire, lastFrame>>

routeVars == <<variant, elevenLabsWsRef, elevenLabsTokenRef, frameVars>>

capVars == <<audioContext, micStream, systemStream, mixedProcessor, micProcessor,
             systemProcessor, micGainNode, systemGainNode, isCapturing,
             onAudioDataCallback, streams, contexts, procs, startCalls, stopCalls,
             stopsMade, frames>>

\* variables that only the actions of one small specification write
pcmVars == <<float32Array, int16Array, converted>>

abVars == <<maxChunks, chunkBuffer, adds, returns, clears>>

restVars == <<levelCalls, pcmVars, routeVars, cancelled, abVars>>

vars == <<beVars, wsVars, appVars, capVars, restVars>>

\* what the actions of one part leave alone
notBE == <<wsVars, appVars, capVars, restVars>>
notWS == <<beVars, appVars, capVars, restVars>>
notApp == <<beVars, wsVars, capVars, restVars>>
notCap == <<beVars, wsVars, appVars, restVars>>
notLevel == <<beVars, wsVars, appVars, pcmVars, routeVars, cancelled, abVars>>
notPCM == <<beVars, wsVars, appVars, capVars, levelCalls, routeVars, cancelled, abVars>>
notRoute == <<beVars, wsVars, capVars, levelCalls, pcmVars, cancelled, abVars>>
notAB == <<beVars, wsVars, appVars, capVars, levelCalls, pcmVars, routeVars, cancelled>>

(***************************************************************************)
(* Helpers                                                                 *)
(***************************************************************************)
Jobs == 1..Len(call)

InFlight == {j \in Jobs : call[j] = "inflight"}

\* JavaScript truthiness of a string
Truthy(s) == s # ""

IsPrefix(s, t) == Len(s) <= Len(t) /\ SubSeq(t, 1, Len(s)) = s

\* the poll() results that were not undefined, in order, flattened
RECURSIVE Flatten(_)
Flatten(log) ==
    IF log = <<>> THEN <<>> ELSE Head(log) \o Flatten(Tail(log))

JobsOf(rs) == [i \in 1..Len(rs) |-> rs[i].job]

(***************************************************************************)
(* POST /agent/run                                                         *)
(***************************************************************************)
\* runAgentLoop up to its await: builds the agent and calls generate().
StartAgentLoop(t) ==
    /\ transcriptOf' = Append(transcriptOf, t)
    /\ call' = Append(call, "inflight")
    /\ loopPromise' = Append(loopPromise, "pending")

\* Plausible bug: a worker that starts the call only when no other is running.
PostAgentRun_Serial(t) ==
    /\ Len(responses) < MaxRequests
    /\ IF ~Truthy(t)
       THEN /\ responses' = Append(responses, [transcript |-> t, status |-> 400, job |-> 0])
            /\ UNCHANGED <<transcriptOf, call, loopPromise, phased>>
       ELSE /\ IF InFlight = {}
               THEN StartAgentLoop(t)
               ELSE /\ transcriptOf' = Append(transcriptOf, t)
                    /\ call' = Append(call, "queued")
                    /\ loopPromise' = Append(loopPromise, "pending")
            /\ responses' = Append(responses,
                   [transcript |-> t, status |-> 200, job |-> Len(call) + 1])
            /\ phased' = (phased /\ doneOrder = <<>> /\ pollLog = <<>>
                                 /\ \A j \in Jobs : call[j] = "inflight")
    /\ UNCHANGED <<jobStore, messageHistory, pollLog, doneOrder>>

\* Plausible bug: the handler awaits runAgentLoop before it replies.
PostAgentRun_Awaits(t) ==
    /\ Len(responses) < MaxRequests
    /\ IF ~Truthy(t)
       THEN /\ responses' = Append(responses, [transcript |-> t, status |-> 400, job |-> 0])
            /\ UNCHANGED <<transcriptOf, call, loopPromise, phased>>
       ELSE /\ transcriptOf' = Append(transcriptOf, t)
            /\ call' = Append(call, "threw")
            /\ loopPromise' = Append(loopPromise, "resolved")
            /\ responses' = Append(responses,
                   [transcript |-> t, status |-> 200, job |-> Len(call) + 1])
            /\ phased' = FALSE
    /\ UNCHANGED <<jobStore, messageHistory, pollLog, doneOrder>>

PostAgentRun(t) ==
    /\ Len(responses) < MaxRequests
    /\ IF ~Truthy(t)
       THEN \* index.ts:93-95
            /\ responses' = Append(responses, [transcript |-> t, status |-> 400, job |-> 0])
            /\ UNCHANGED <<transcriptOf, call, loopPromise, phased>>
       ELSE \* index.ts:97-98: not awaited, the reply follows at once
            /\ StartAgentLoop(t)
            /\ responses' = Append(responses,
                   [transcript |-> t, status |-> 200, job |-> Len(call) + 1])
            /\ phased' = (phased /\ doneOrder = <<>> /\ pollLog = <<>>
                                 /\ \A j \in Jobs : call[j] = "inflight")
    /\ UNCHANGED <<jobStore, messageHistory, pollLog, doneOrder>>

(***************************************************************************)
(* runAgentLoop after its await (agent_loop.ts:371-394)                    *)
(***************************************************************************)
UserEntry(j) == [role |-> "user", content |-> transcriptOf[j], job |-> j]

AssistantEntry(j, x) == [role |-> "assistant", content |-> x, job |-> j]

\* Plausible bug: the assistant entry is pushed without the test of :386.
HistoryEntries_NoTest(j, x) == <<UserEntry(j), AssistantEntry(j, x)>>

\* Plausible bug: the assistant entry is pushed before the user entry.
HistoryEntries_AssistantFirst(j, x) ==
    IF Truthy(x) THEN <<AssistantEntry(j, x), UserEntry(j)>> ELSE <<UserEntry(j)>>

\* agent_loop.ts:385-388
HistoryEntries(j, x) ==
    IF Truthy(x) THEN <<UserEntry(j), AssistantEntry(j, x)>> ELSE <<UserEntry(j)>>

\* Plausible bug: an empty response is not stored.
GenerateResolve_SkipsEmpty(j, x) ==
    /\ j \in InFlight
    /\ jobStore' = IF Truthy(x) THEN Append(jobStore, [job |-> j, text |-> x]) ELSE jobStore
    /\ messageHistory' = messageHistory \o HistoryEntries(j, x)
    /\ call' = [call EXCEPT ![j] = "ok"]
    /\ loopPromise' = [loopPromise EXCEPT ![j] = "resolved"]
    /\ doneOrder' = Append(doneOrder, [job |-> j, text |-> x])
    /\ UNCHANGED <<transcriptOf, responses, pollLog, phased>>

\* generate() resolves with text x: :383 push to jobStore, :385-388 history.
GenerateResolve(j, x) ==
    /\ j \in InFlight
    /\ jobStore' = Append(jobStore, [job |-> j, text |-> x])
    /\ messageHistory' = messageHistory \o HistoryEntries(j, x)
    /\ call' = [call EXCEPT ![j] = "ok"]
    /\ loopPromise' = [loopPromise EXCEPT ![j] = "resolved"]
    /\ doneOrder' = Append(doneOrder, [job |-> j, text |-> x])
    /\ UNCHANGED <<transcriptOf, responses, pollLog, phased>>

\* Plausible bug: no try/catch, the rejection of generate() propagates.
GenerateReject_Uncaught(j) ==
    /\ j \in InFlight
    /\ call' = [call EXCEPT ![j] = "threw"]
    /\ loopPromise' = [loopPromise EXCEPT ![j] = "rejected"]
    /\ phased' = FALSE
    /\ UNCHANGED <<jobStore, messageHistory, transcriptOf, responses, pollLog, doneOrder>>

\* Plausible bug: the catch block pushes a placeholder result.
GenerateReject_Placeholder(j) ==
    /\ j \in InFlight
    /\ call' = [call EXCEPT ![j] = "threw"]
    /\ loopPromise' = [loopPromise EXCEPT ![j] = "resolved"]
    /\ jobStore' = Append(jobStore, [job |-> j, text |-> "error"])
    /\ phased' = FALSE
    /\ UNCHANGED <<messageHistory, transcriptOf, responses, pollLog, doneOrder>>

\* generate() rejects: the catch of :392-394 only logs, the function returns.
GenerateReject(j) ==
    /\ j \in InFlight
    /\ call' = [call EXCEPT ![j] = "threw"]
    /\ loopPromise' = [loopPromise EXCEPT ![j] = "resolved"]
    /\ phased' = FALSE
    /\ UNCHANGED <<jobStore, messageHistory, transcriptOf, responses, pollLog, doneOrder>>

(***************************************************************************)
(* GET /agent/poll (index.ts:101-107) calling poll() (agent_loop.ts:398)   *)
(***************************************************************************)
\* Plausible bug: pop() instead of shift().
Shift_Pop(a) ==
    IF a = <<>> THEN <<<<>>, a>> ELSE <<<<a[Len(a)]>>, SubSeq(a, 1, Len(a) - 1)>>

\* Plausible bug: the entry is read but not removed.
Shift_Peek(a) == IF a = <<>> THEN <<<<>>, a>> ELSE <<<<Head(a)>>, a>>

\* Array.prototype.shift: <<removed element or nothing, remaining array>>
Shift(a) == IF a = <<>> THEN <<<<>>, a>> ELSE <<<<Head(a)>>, Tail(a)>>

Poll ==
    /\ Len(pollLog) < MaxPolls
    /\ pollLog' = Append(pollLog, Shift(jobStore)[1])
    /\ jobStore' = Shift(jobStore)[2]
    /\ phased' = (phased /\ InFlight = {})
    /\ UNCHANGED <<messageHistory, transcriptOf, call, loopPromise, responses, doneOrder>>

(***************************************************************************)
(* Specification of the backend                                            *)
(***************************************************************************)
InitBE ==
    /\ jobStore = <<>>
    /\ messageHistory = <<>>
    /\ transcriptOf = <<>>
    /\ call = <<>>
    /\ loopPromise = <<>>
    /\ responses = <<>>
    /\ pollLog = <<>>
    /\ doneOrder = <<>>
    /\ phased = TRUE

(***************************************************************************)
(* Transcription session: class ElevenLabsWebSocket (part_002)             *)
(***************************************************************************)
NoSocket == 0

NoTimer == 0

Sockets == 1..Len(readyState)

\* part_002:259  get connected()
Connected == isConnected /\ ws # NoSocket /\ readyState[ws] = "OPEN"

\* part_002:210-215  stopKeepalive: the timers left once the owned one is cleared
StopKeepalive == timers \ {keepaliveInterval}

\* The source tags (part_002:11) and the callback objects a caller passes:
\* "app" registers all four callbacks (part_003:199-216), "none" is the
\* default {} of part_002:59.
Sources == {"mic", "system"}

CallbackSets == {"app", "none"}

\* Plausible bug: the arguments are stored before the already-connected test.
Connect_StoresFirst(src, cbs) ==
    /\ Len(readyState) + earlyReturns < MaxSockets
    /\ callbacks' = cbs
    /\ source' = src
    /\ IF isConnected /\ ws # NoSocket
       THEN /\ earlyReturns' = earlyReturns + 1
            /\ earlyResult' = "resolved"
            /\ UNCHANGED <<ws, readyState, promise, sent, connArgs>>
       ELSE /\ readyState' = Append(readyState, "CONNECTING")
            /\ ws' = Len(readyState) + 1
            /\ promise' = Append(promise, "pending")
            /\ sent' = Append(sent, <<>>)
            /\ connArgs' = Append(connArgs, [src |-> src, cbs |-> cbs])
            /\ UNCHANGED <<earlyReturns, earlyResult>>
    /\ UNCHANGED <<isConnected, keepaliveInterval, silentChunk, established, timers,
                   audioCalls, ticks, disconnected, realSinceTick, msgVars,
                   disconnectCalls, errored>>

\* part_002:59-121  connect(token, source, callbacks): the body up to the
\* return of the promise.  An async function that returns at :62 resolves.
Connect(src, cbs) ==
    /\ Len(readyState) + earlyReturns < MaxSockets
    /\ IF isConnected /\ ws # NoSocket
       THEN \* :60-63
            /\ earlyReturns' = earlyReturns + 1
            /\ earlyResult' = "resolved"
            /\ UNCHANGED <<ws, readyState, promise, sent, source, callbacks, connArgs>>
       ELSE \* :65-66, :82  this.ws = new WebSocket(wsUrl)
            /\ callbacks' = cbs
            /\ source' = src
            /\ readyState' = Append(readyState, "CONNECTING")
            /\ ws' = Len(readyState) + 1
            /\ promise' = Append(promise, "pending")
            /\ sent' = Append(sent, <<>>)
            /\ connArgs' = Append(connArgs, [src |-> src, cbs |-> cbs])
            /\ UNCHANGED <<earlyReturns, earlyResult>>
    /\ UNCHANGED <<isConnected, keepaliveInterval, silentChunk, established, timers,
                   audioCalls, ticks, disconnected, realSinceTick, msgVars,
                   disconnectCalls, errored>>

\* this.callbacks.<cb>?.(..., this.source): the entry the call adds to the
\* log of callbacks, none when the callback is not registered.
Notify(cb, text, m) ==
    IF callbacks = "app"
    THEN <<[cb |-> cb, src |-> source, text |-> text, msg |-> m]>>
    ELSE <<>>

Settle(s, how) == [promise EXCEPT ![s] = IF @ = "pending" THEN how ELSE @]

\* part_002:84-89  ws.onopen, with startKeepalive (:191-205).  The timer that
\* setInterval returns is named after the socket whose open event armed it.
SockOpen(s) ==
    /\ readyState[s] = "CONNECTING"
    /\ readyState' = [readyState EXCEPT ![s] = "OPEN"]
    /\ established' = established \cup {s}
    /\ isConnected' = TRUE
    /\ timers' = StopKeepalive \cup {s}
    /\ keepaliveInterval' = s
    /\ silentChunk' = TRUE
    /\ promise' = Settle(s, "resolved")
    /\ realSinceTick' = FALSE
    /\ UNCHANGED <<ws, sent, earlyReturns, audioCalls, ticks, disconnected, argVars,
                   msgVars, disconnectCalls, connArgs, errored>>

\* The peer starts the closing handshake: readyState becomes CLOSING, no event yet.
SockClosing(s) ==
    /\ readyState[s] = "OPEN"
    /\ readyState' = [readyState EXCEPT ![s] = "CLOSING"]
    /\ UNCHANGED <<ws, isConnected, keepaliveInterval, silentChunk, established, timers,
                   promise, sent, earlyReturns, audioCalls, ticks, disconnected,
                   realSinceTick, argVars, msgVars, disconnectCalls, connArgs, errored>>

\* Plausible bug: onclose forgets stopKeepalive.
OnClose_NoStop ==
    /\ UNCHANGED <<timers, keepaliveInterval, connArgs, errored>>
    /\ isConnected' = FALSE
    /\ ws' = NoSocket
    /\ silentChunk' = FALSE

\* part_002:107-114  ws.onclose
OnClose ==
    /\ timers' = StopKeepalive
    /\ keepaliveInterval' = NoTimer
    /\ isConnected' = FALSE
    /\ ws' = NoSocket
    /\ silentChunk' = FALSE

\* Plausible bug: onerror reports the error and leaves the promise pending.
SockFail_NoReject(s) ==
    /\ readyState[s] \in {"CONNECTING", "OPEN", "CLOSING"}
    /\ readyState' = [readyState EXCEPT ![s] = "CLOSED"]
    /\ OnClose
    /\ cbLog' = cbLog \o Notify("onError", "", 0) \o Notify("onClose", "", 0)
    /\ errored' = errored \cup {s}
    /\ UNCHANGED <<established, promise, sent, earlyReturns, audioCalls, ticks, disconnected,
                   realSinceTick, argVars, msgLog, posts, pendingFetch, disconnectCalls, connArgs>>

\* The connection fails (handshake refused, transport lost, or close() before
\* the handshake ended): the browser sets CLOSED and dispatches error and then
\* close in one task.  part_002:100-105 ws.onerror, then ws.onclose.
SockFail(s) ==
    /\ readyState[s] \in {"CONNECTING", "OPEN", "CLOSING"}
    /\ readyState' = [readyState EXCEPT ![s] = "CLOSED"]
    /\ promise' = Settle(s, "rejected")
    /\ OnClose
    /\ cbLog' = cbLog \o Notify("onError", "", 0) \o Notify("onClose", "", 0)
    /\ errored' = errored \cup {s}
    /\ UNCHANGED <<established, sent, earlyReturns, audioCalls, ticks, disconnected,
                   realSinceTick, argVars, msgLog, posts, pendingFetch, disconnectCalls, connArgs>>

\* The connection closes cleanly after being open: only the close event.
SockClose(s) ==
    /\ readyState[s] \in {"OPEN", "CLOSING"}
    /\ s \in established
    /\ readyState' = [readyState EXCEPT ![s] = "CLOSED"]
    /\ OnClose
    /\ cbLog' = cbLog \o Notify("onClose", "", 0)
    /\ UNCHANGED <<established, promise, sent, earlyReturns, audioCalls, ticks,
                   disconnected, realSinceTick, argVars, msgLog, posts, pendingFetch,
                   disconnectCalls, connArgs, errored>>

\* WebSocket.close(): CLOSING unless the socket is already closing or closed
CloseSocket(s) ==
    [readyState EXCEPT ![s] = IF @ \in {"CONNECTING", "OPEN"} THEN "CLOSING" ELSE @]

\* Plausible bug: disconnect only stops the keepalive and keeps the socket.
Disconnect_KeepsSocket ==
    /\ timers' = StopKeepalive
    /\ keepaliveInterval' = NoTimer
    /\ disconnected' = IF ws # NoSocket THEN disconnected \cup {ws} ELSE disconnected
    /\ silentChunk' = FALSE
    /\ disconnectCalls < MaxDisconnects
    /\ disconnectCalls' = disconnectCalls + 1
    /\ UNCHANGED <<ws, isConnected, readyState, established, promise, sent, earlyReturns,
                   audioCalls, ticks, realSinceTick, argVars, msgVars, connArgs, errored>>

\* Plausible bug: disconnect closes the socket and leaves the keepalive armed.
Disconnect_NoStop ==
    /\ UNCHANGED <<timers, keepaliveInterval>>
    /\ IF ws # NoSocket
       THEN /\ readyState' = CloseSocket(ws)
            /\ disconnected' = disconnected \cup {ws}
       ELSE UNCHANGED <<readyState, disconnected>>
    /\ ws' = NoSocket
    /\ isConnected' = FALSE
    /\ silentChunk' = FALSE
    /\ disconnectCalls < MaxDisconnects
    /\ disconnectCalls' = disconnectCalls + 1
    /\ UNCHANGED <<established, promise, sent, earlyReturns, audioCalls, ticks,
                   realSinceTick, argVars, msgVars, connArgs, errored>>

\* part_002:245-253  disconnect()
Disconnect ==
    /\ timers' = StopKeepalive
    /\ keepaliveInterval' = NoTimer
    /\ IF ws # NoSocket
       THEN /\ readyState' = CloseSocket(ws)
            /\ disconnected' = disconnected \cup {ws}
       ELSE UNCHANGED <<readyState, disconnected>>
    /\ ws' = NoSocket
    /\ isConnected' = FALSE
    /\ silentChunk' = FALSE
    /\ disconnectCalls < MaxDisconnects
    /\ disconnectCalls' = disconnectCalls + 1
    /\ UNCHANGED <<established, promise, sent, earlyReturns, audioCalls, ticks,
                   realSinceTick, argVars, msgVars, connArgs, errored>>

\* Plausible bug: the guard tests the flag and the socket, not readyState.
SendAudioChunk_NoReadyCheck(kind) ==
    IF ~isConnected \/ ws = NoSocket
    THEN sent
    ELSE [sent EXCEPT ![ws] = Append(@, kind)]

\* part_002:220-240  sendAudioChunk: the frames on the wire after the call
SendAudioChunk(kind) ==
    IF ~isConnected \/ ws = NoSocket \/ readyState[ws] # "OPEN"
    THEN sent
    ELSE [sent EXCEPT ![ws] = Append(@, kind)]

\* The capture callback hands a real frame to sendAudioChunk.
CaptureFrame ==
    /\ audioCalls < MaxAudio
    /\ audioCalls' = audioCalls + 1
    /\ sent' = SendAudioChunk("audio")
    /\ realSinceTick' = (realSinceTick \/ sent' # sent)
    /\ UNCHANGED <<ws, isConnected, keepaliveInterval, silentChunk, readyState,
                   established, timers, promise, earlyReturns, ticks, disconnected,
                   argVars, msgVars, disconnectCalls, connArgs, errored>>

\* Plausible bug (the behaviour the specification describes): the tick sends
\* silence only when no real audio went out since the previous tick.
KeepaliveTick_IdleOnly(t) ==
    /\ ticks < MaxTicks
    /\ ticks' = ticks + 1
    /\ sent' = IF Connected /\ silentChunk /\ ~realSinceTick
               THEN SendAudioChunk("silence") ELSE sent
    /\ realSinceTick' = FALSE
    /\ UNCHANGED <<ws, isConnected, keepaliveInterval, silentChunk, readyState,
                   established, timers, promise, earlyReturns, audioCalls, disconnected,
                   argVars, msgVars, disconnectCalls, connArgs, errored>>

\* part_002:199-204  the setInterval callback of timer t.  A null silentChunk
\* would make pcmToBase64 throw inside the try of sendAudioChunk: no frame.
KeepaliveTick(t) ==
    /\ ticks < MaxTicks
    /\ ticks' = ticks + 1
    /\ sent' = IF Connected /\ silentChunk THEN SendAudioChunk("silence") ELSE sent
    /\ realSinceTick' = FALSE
    /\ UNCHANGED <<ws, isConnected, keepaliveInterval, silentChunk, readyState,
                   established, timers, promise, earlyReturns, audioCalls, disconnected,
                   argVars, msgVars, disconnectCalls, connArgs, errored>>

(***************************************************************************)
(* Inbound messages: ws.onmessage (part_002:91-98), handleMessage (:126-186) *)
(***************************************************************************)
Msg(f, k, t) == [fmt |-> f, kind |-> k, text |-> t]

\* event.data that JSON.parse rejects
Malformed == Msg("malformed", "", "")

\* fmt says which field names the kind: data.message_type or the legacy data.type
Messages ==
    {Malformed,
     Msg("message_type", "partial_transcript", "p"),
     Msg("message_type", "committed_transcript", "c"),
     Msg("message_type", "committed_transcript", ""),
     Msg("message_type", "input_error", ""),
     Msg("type", "partial_transcript", "p"),
     Msg("type", "committed_transcript", "c"),
     Msg("type", "input_error", "")}

\* part_002:141, :175  the test that guards the committed branch of either format
CommittedTest(m) == m.kind = "committed_transcript" /\ m.text # "" /\ callbacks = "app"

\* part_002:140-150 against :174-177: only the message_type branch calls
\* fetch(POST /agent/run) and awaits it before the callback.
Forwards(m) == m.fmt = "message_type" /\ CommittedTest(m)

\* Plausible bug (the behaviour the specification describes): the catch of
\* onmessage reports the parse error through onError.
SyncCallbacks_ReportsParse(m, id) ==
    IF m = Malformed THEN Notify("onError", "", id)
    ELSE IF m.kind = "partial_transcript" /\ m.text # ""
    THEN Notify("onPartialTranscript", m.text, id)
    ELSE IF m.kind = "committed_transcript" /\ m.fmt = "type" /\ m.text # ""
    THEN Notify("onCommittedTranscript", m.text, id)
    ELSE IF m.kind = "input_error" /\ m.fmt = "message_type"
    THEN Notify("onError", "", id)
    ELSE <<>>

\* The callbacks handleMessage invokes before it returns or first awaits.
\* A malformed message throws in JSON.parse and is only logged (:95-97); the
\* legacy format has no input_error case (:180-181).
SyncCallbacks(m, id) ==
    IF m = Malformed THEN <<>>
    ELSE IF m.kind = "partial_transcript" /\ m.text # ""
    THEN Notify("onPartialTranscript", m.text, id)           \* :134-138, :168-172
    ELSE IF m.kind = "committed_transcript" /\ m.fmt = "type" /\ m.text # ""
    THEN Notify("onCommittedTranscript", m.text, id)         \* :174-178
    ELSE IF m.kind = "input_error" /\ m.fmt = "message_type"
    THEN Notify("onError", "", id)                           \* :157-160
    ELSE <<>>

\* A message event of socket s: the handler is the socket's, whatever this.ws is.
MessageEvent(s, m) ==
    /\ Len(msgLog) < MaxMessages
    /\ readyState[s] \in {"OPEN", "CLOSING"}
    /\ s \in established
    /\ LET id == Len(msgLog) + 1 IN
       /\ msgLog' = Append(msgLog, [sock |-> s, msg |-> m, reg |-> callbacks])
       /\ cbLog' = cbLog \o SyncCallbacks(m, id)
       /\ IF Forwards(m)
          THEN /\ posts' = Append(posts, [msg |-> id, text |-> m.text, src |-> source])
               /\ pendingFetch' = pendingFetch \cup {id}
          ELSE UNCHANGED <<posts, pendingFetch>>
    /\ UNCHANGED <<ws, isConnected, keepaliveInterval, silentChunk, readyState, established,
                   timers, promise, sent, earlyReturns, audioCalls, ticks, disconnected,
                   realSinceTick, argVars, disconnectCalls, connArgs, errored>>

\* The fetch of message id settles and handleMessage resumes (:151-153).  A
\* rejected fetch rejects handleMessage, which nobody awaits: no callback.
\* The callback and the tag are read from this.callbacks and this.source now.
FetchSettle(id, resolved) ==
    /\ id \in pendingFetch
    /\ pendingFetch' = pendingFetch \ {id}
    /\ cbLog' = IF resolved
                THEN cbLog \o Notify("onCommittedTranscript", msgLog[id].msg.text, id)
                ELSE cbLog
    /\ UNCHANGED <<ws, isConnected, keepaliveInterval, silentChunk, readyState, established,
                   timers, promise, sent, earlyReturns, audioCalls, ticks, disconnected,
                   realSinceTick, argVars, disconnectCalls, connArgs, errored, msgLog,
                   posts>>

InitWS ==
    /\ ws = NoSocket
    /\ isConnected = FALSE
    /\ keepaliveInterval = NoTimer
    /\ silentChunk = FALSE
    /\ readyState = <<>>
    /\ established = {}
    /\ timers = {}
    /\ promise = <<>>
    /\ sent = <<>>
    /\ earlyReturns = 0
    /\ audioCalls = 0
    /\ ticks = 0
    /\ disconnected = {}
    /\ realSinceTick = FALSE
    /\ source = "mic"
    /\ callbacks = "none"
    /\ msgLog = <<>>
    /\ cbLog = <<>>
    /\ posts = <<>>
    /\ pendingFetch = {}
    /\ earlyResult = "none"
    /\ disconnectCalls = 0
    /\ connArgs = <<>>
    /\ errored = {}

(***************************************************************************)
(* The App's two transcription connections (part_003)                      *)
(***************************************************************************)
NoObject == 0
NoToken == 0

\* part_003:27  the initial value of elevenLabsTokensRef, and what
\* stopAndGetFeedback stores at :262
NoTokens == [mic |-> NoToken, system |-> NoToken]

\* The two tokens of the k-th prefetch: the backend mints a new single-use
\* token for every GET /scribe-token.
TokenPair(k) == [mic |-> 2 * k - 1, system |-> 2 * k]

\* part_003:33-48  the two fetches of one prefetchTokens call settle: both
\* resolved stores the pair and sets isReady; a rejection arms the retry
\* timer, which calls prefetchTokens again.
PrefetchSettles(ok) ==
    /\ prefetches > 0
    /\ IF ok
       THEN /\ elevenLabsTokensRef' = TokenPair(tokensFetched + 1)
            /\ tokensFetched' = tokensFetched + 1
            /\ isReady' = TRUE
            /\ prefetches' = prefetches - 1
       ELSE UNCHANGED tokenVars
    /\ UNCHANGED <<objs, micWsRef, systemWsRef, isListening, appLog, appPosts,
                   appPending, appMsgs, pauseVars>>

Objects == 1..Len(objs)

MessageKinds == {"partial_transcript", "committed_transcript", "input_error"}

\* Plausible bug: the source tag kept in one place for all sessions, so that
\* the last connect() decides the tag of every callback.
SourceOf_Shared(o) == objs[Len(objs)].source

\* part_002:34  this.source is a field of each ElevenLabsWebSocket object
SourceOf(o) == objs[o].source

\* this.callbacks.<cb>?.(..., this.source) of object o; the App registers
\* all four callbacks (part_003:199-216)
ObjNotify(o, cb) == {[obj |-> o, cb |-> cb, src |-> SourceOf(o)]}

\* new ElevenLabsWebSocket() followed by connect(token, tag, wsCallbacks)
\* (part_003:219-221, :225-227; part_002:65-66, :82).  then is what the
\* caller does when the promise of connect() resolves.
NewObject(tag, then, token, systemToken) ==
    [tag |-> tag, source |-> tag, rs |-> "CONNECTING", est |-> FALSE, then |-> then,
     token |-> token, systemToken |-> systemToken]

\* part_003:181-247  toggleListening up to its first await, when the App is
\* not listening and the tokens are there (:196-221); without the mic token
\* it alerts and returns (:191-194).  While listening the call only flips
\* isPaused (:184-188), which no session reads.  systemToken is the local
\* the continuation uses at :224.
ToggleListening ==
    /\ ~isListening
    /\ elevenLabsTokensRef.mic # NoToken
    /\ Len(objs) < MaxObjects
    /\ objs' = Append(objs, NewObject("mic", "system", elevenLabsTokensRef.mic,
                                      elevenLabsTokensRef.system))
    /\ micWsRef' = Len(objs) + 1
    /\ UNCHANGED <<tokenVars, pauseVars, systemWsRef, isListening, appLog, appPosts, appPending, appMsgs>>

\* part_003:229-232  audioCapture.start(handleAudioData) and what follows it;
\* setIsListening(true) and setIsPaused(false); a rejected start leaves the
\* flags alone (:233-243)
CaptureStarted(ok) ==
    /\ isListening' = (isListening \/ ok)
    /\ isPaused' = IF ok THEN FALSE ELSE isPaused

\* The open event of object o's socket (part_002:84-89) and the continuation
\* of the toggleListening that awaits its connect(): the system connection
\* when there is a system token (part_003:224-228), then the capture.
ObjOpen(o, ok) ==
    /\ objs[o].rs = "CONNECTING"
    /\ LET opened == [objs EXCEPT ![o].rs = "OPEN", ![o].est = TRUE, ![o].then = "none"] IN
       IF objs[o].then = "system" /\ objs[o].systemToken # NoToken
       THEN /\ Len(objs) < MaxObjects
            /\ objs' = Append(opened, NewObject("system", "capture",
                                                objs[o].systemToken, NoToken))
            /\ systemWsRef' = Len(objs) + 1
            /\ UNCHANGED <<isListening, isPaused>>
       ELSE /\ objs' = opened
            /\ IF objs[o].then = "none"
               THEN UNCHANGED <<isListening, isPaused>>
               ELSE CaptureStarted(ok)
            /\ UNCHANGED systemWsRef
    /\ UNCHANGED <<tokenVars, isPausedRef, micWsRef, appLog, appPosts, appPending, appMsgs>>

\* The error and close events of object o's socket (part_002:100-114); a
\* toggleListening awaiting the connect() ends in its catch (part_003:233).
ObjFail(o) ==
    /\ objs[o].rs \in {"CONNECTING", "OPEN", "CLOSING"}
    /\ objs' = [objs EXCEPT ![o].rs = "CLOSED", ![o].then = "none"]
    /\ appLog' = appLog \cup ObjNotify(o, "onError") \cup ObjNotify(o, "onClose")
    /\ UNCHANGED <<tokenVars, pauseVars, micWsRef, systemWsRef, isListening, appPosts, appPending,
                   appMsgs>>

\* The close event alone (part_002:107-114)
ObjClose(o) ==
    /\ objs[o].rs \in {"OPEN", "CLOSING"}
    /\ objs[o].est
    /\ objs' = [objs EXCEPT ![o].rs = "CLOSED"]
    /\ appLog' = appLog \cup ObjNotify(o, "onClose")
    /\ UNCHANGED <<tokenVars, pauseVars, micWsRef, systemWsRef, isListening, appPosts, appPending,
                   appMsgs>>

\* A message_type message with text on object o (part_002:126-160)
ObjMessage(o, kind) ==
    /\ appMsgs < MaxAppMessages
    /\ objs[o].rs \in {"OPEN", "CLOSING"}
    /\ objs[o].est
    /\ appMsgs' = appMsgs + 1
    /\ IF kind = "committed_transcript"
       THEN /\ appPosts' = appPosts \cup {[obj |-> o, src |-> SourceOf(o)]}
            /\ appPending' = appPending \cup {[id |-> appMsgs + 1, obj |-> o]}
            /\ UNCHANGED appLog
       ELSE /\ appLog' = appLog \cup ObjNotify(o, IF kind = "partial_transcript"
                                                THEN "onPartialTranscript"
                                                ELSE "onError")
            /\ UNCHANGED <<appPosts, appPending>>
    /\ UNCHANGED <<tokenVars, pauseVars, objs, micWsRef, systemWsRef, isListening>>

\* The fetch of a committed transcript settles (part_002:151-153)
ObjFetchSettle(p, resolved) ==
    /\ p \in appPending
    /\ appPending' = appPending \ {p}
    /\ appLog' = IF resolved
                 THEN appLog \cup ObjNotify(p.obj, "onCommittedTranscript")
                 ELSE appLog
    /\ UNCHANGED <<tokenVars, pauseVars, objs, micWsRef, systemWsRef, isListening, appPosts, appMsgs>>

\* disconnect() of the object a ref holds (part_002:245-253)
Disconnected(os, refs) ==
    [o \in DOMAIN os |->
        IF o \in refs /\ os[o].rs \in {"CONNECTING", "OPEN"}
        THEN [os[o] EXCEPT !.rs = "CLOSING"]
        ELSE os[o]]

\* part_003:249-295  stopAndGetFeedback.  While listening: the capture
\* stops, both sessions are disconnected, the refs and the tokens cleared
\* (:251-263).  In either case the finally block calls prefetchTokens when
\* isReady is false (:291-293).
StopAndGetFeedback ==
    /\ IF isListening
       THEN /\ objs' = Disconnected(objs, {micWsRef, systemWsRef})
            /\ micWsRef' = NoObject
            /\ systemWsRef' = NoObject
            /\ isListening' = FALSE
            /\ elevenLabsTokensRef' = NoTokens
       ELSE UNCHANGED <<objs, micWsRef, systemWsRef, isListening, elevenLabsTokensRef>>
    /\ IF isReady
       THEN UNCHANGED prefetches
       ELSE /\ prefetches < MaxPrefetches
            /\ prefetches' = prefetches + 1
    /\ UNCHANGED <<isReady, tokensFetched, appLog, appPosts, appPending, appMsgs,
                   pauseVars>>

InitApp ==
    /\ objs = <<>>
    /\ micWsRef = NoObject
    /\ systemWsRef = NoObject
    /\ isListening = FALSE
    /\ appLog = {}
    /\ appPosts = {}
    /\ appPending = {}
    /\ appMsgs = 0
    /\ elevenLabsTokensRef = NoTokens
    /\ isReady = FALSE
    /\ prefetches = 1             \* the mount effect has called prefetchTokens (:58)
    /\ tokensFetched = 0
    /\ isPaused = FALSE
    /\ isPausedRef = FALSE

(***************************************************************************)
(* The frames of the capture in the App: handleAudioData of the dual       *)
(* variant (part_003:133-146) and of the mixed variant (App.tsx:124-131),  *)
(* with the start, pause and stop handlers of both.                        *)
(***************************************************************************)
FrameSources == {"mic", "system", "mixed"}

Variants == {"dual", "mixed"}

NoFrame == [src |-> "none", n |-> 0, to |-> {}]

\* part_003:184-188, App.tsx:246-250  toggleListening while listening
TogglePause ==
    /\ isListening
    /\ isPaused' = ~isPaused
    /\ UNCHANGED <<objs, micWsRef, systemWsRef, isListening, appLog, appPosts,
                   appPending, appMsgs, tokenVars, isPausedRef>>

\* part_003:128-131, App.tsx:119-122  the effect that follows a render with
\* a new isPaused
PauseEffect ==
    /\ isPausedRef # isPaused
    /\ isPausedRef' = isPaused
    /\ UNCHANGED <<objs, micWsRef, systemWsRef, isListening, appLog, appPosts,
                   appPending, appMsgs, tokenVars, isPaused>>

\* part_002:258-260  the connected getter of the object a ref holds
\* (ref.current?.connected): isConnected and readyState OPEN
RefConnected(ref) == ref # NoObject /\ objs[ref].est /\ objs[ref].rs = "OPEN"

\* Plausible bug: the frame is put in front of what was sent.
Transmit_Front(w, o, f) == <<[obj |-> o, src |-> f.src, n |-> f.n]>> \o w

\* part_002:236  this.ws.send(JSON.stringify(message)) on object o
Transmit(w, o, f) == Append(w, [obj |-> o, src |-> f.src, n |-> f.n])

\* part_002:220-240  sendAudioChunk of object o: nothing is sent unless the
\* session is connected and its socket OPEN
ObjSendAudioChunk(w, o, f) ==
    IF objs[o].est /\ objs[o].rs = "OPEN" THEN Transmit(w, o, f) ELSE w

\* Plausible bug: every frame goes to the mic session.
RouteDual_AllToMic(src) == IF RefConnected(micWsRef) THEN <<micWsRef>> ELSE <<>>

\* part_003:133-146  the objects handleAudioData calls sendAudioChunk on,
\* in order, for a frame of source src
RouteDual(src) ==
    IF isPausedRef THEN <<>>
    ELSE (IF src = "mic" /\ RefConnected(micWsRef) THEN <<micWsRef>> ELSE <<>>)
         \o (IF src = "system" /\ RefConnected(systemWsRef) THEN <<systemWsRef>> ELSE <<>>)

\* App.tsx:124-131  the same for the mixed variant
RouteMixed(src) ==
    IF src = "mixed" /\ RefConnected(elevenLabsWsRef)
    THEN (IF ~isPausedRef THEN <<elevenLabsWsRef>> ELSE <<>>)
    ELSE <<>>

RECURSIVE SendAll(_, _, _)
SendAll(w, to, f) ==
    IF to = <<>> THEN w ELSE SendAll(ObjSendAudioChunk(w, Head(to), f), Tail(to), f)

\* A processor of the running capture fires (audioCapture.ts:325-388): the
\* next frame of source src is converted and handed to handleAudioData.
\* The capture runs from the start that set isListening to the stop.
HandleAudioData(src) ==
    /\ isListening
    /\ captured["mic"] + captured["system"] + captured["mixed"] < MaxCaptured
    /\ LET f == [src |-> src, n |-> captured[src] + 1]
           to == IF variant = "dual" THEN RouteDual(src) ELSE RouteMixed(src)
       IN /\ captured' = [captured EXCEPT ![src] = @ + 1]
          /\ wire' = SendAll(wire, to, f)
          /\ lastFrame' = [src |-> src, n |-> f.n, to |-> {to[i] : i \in DOMAIN to}]
    /\ UNCHANGED <<variant, elevenLabsWsRef, elevenLabsTokenRef>>

\* App.tsx:27-38  the fetch of one prefetchToken call settles
PrefetchTokenSettles(ok) ==
    /\ prefetches > 0
    /\ IF ok
       THEN /\ elevenLabsTokenRef' = tokensFetched + 1
            /\ tokensFetched' = tokensFetched + 1
            /\ isReady' = TRUE
            /\ prefetches' = prefetches - 1
       ELSE UNCHANGED <<elevenLabsTokenRef, tokensFetched, isReady, prefetches>>
    /\ UNCHANGED <<objs, micWsRef, systemWsRef, isListening, appLog, appPosts,
                   appPending, appMsgs, elevenLabsTokensRef, pauseVars>>
    /\ UNCHANGED <<variant, elevenLabsWsRef, frameVars>>

\* App.tsx:243-315  toggleListening of the mixed variant up to its first
\* await, when not listening and the token is there: one session, then the
\* capture
ToggleListeningMixed ==
    /\ ~isListening
    /\ elevenLabsTokenRef # NoToken
    /\ Len(objs) < MaxObjects
    /\ objs' = Append(objs, NewObject("mixed", "capture", elevenLabsTokenRef, NoToken))
    /\ elevenLabsWsRef' = Len(objs) + 1
    /\ UNCHANGED <<micWsRef, systemWsRef, isListening, appLog, appPosts, appPending,
                   appMsgs, tokenVars, pauseVars>>
    /\ UNCHANGED <<variant, elevenLabsTokenRef, frameVars>>

\* App.tsx:317-361  stopAndGetFeedback of the mixed variant
StopAndGetFeedbackMixed ==
    /\ IF isListening
       THEN /\ objs' = Disconnected(objs, {elevenLabsWsRef})
            /\ elevenLabsWsRef' = NoObject
            /\ isListening' = FALSE
            /\ elevenLabsTokenRef' = NoToken
       ELSE UNCHANGED <<objs, elevenLabsWsRef, isListening, elevenLabsTokenRef>>
    /\ IF isReady
       THEN UNCHANGED prefetches
       ELSE /\ prefetches < MaxPrefetches
            /\ prefetches' = prefetches + 1
    /\ UNCHANGED <<micWsRef, systemWsRef, appLog, appPosts, appPending, appMsgs,
                   elevenLabsTokensRef, isReady, tokensFetched, pauseVars>>
    /\ UNCHANGED <<variant, frameVars>>

InitFrames ==
    /\ cancelled = {}
    /\ elevenLabsWsRef = NoObject
    /\ elevenLabsTokenRef = NoToken
    /\ captured = [src \in FrameSources |-> 0]
    /\ wire = <<>>
    /\ lastFrame = NoFrame

(***************************************************************************)
(* AudioCapture (audioCapture.ts:200-490)                                  *)
(***************************************************************************)
NoHandle == 0

\* gains in tenths: 1.0 for the microphone (audioCapture.ts:310), the default
\* mixRatio 0.7 for the system audio (:213, :344); NoGain is a null gain node
NoGain == 0 - 1
MicGain == 10
MixRatio == 7

StartIds == 1..Len(startCalls)

\* what one start() left to do: awaiting getUserMedia, awaiting
\* getDisplayMedia, awaiting the stop() of its catch, or settled
NewStart(pc, result, running) ==
    [pc |-> pc, result |-> result, whileRunning |-> running, cause |-> "none"]

\* audioCapture.ts:426-468  stop() up to the test of this.audioContext, run
\* on the streams strs with the handles ms and ss
StopHandles(ms, ss, strs) ==
    /\ isCapturing' = FALSE
    /\ procs' = [p \in DOMAIN procs |->
                    IF p \in {mixedProcessor, micProcessor, systemProcessor}
                    THEN [procs[p] EXCEPT !.live = FALSE]
                    ELSE procs[p]]
    /\ mixedProcessor' = NoHandle
    /\ micProcessor' = NoHandle
    /\ systemProcessor' = NoHandle
    /\ micGainNode' = NoGain
    /\ systemGainNode' = NoGain
    /\ streams' = [i \in DOMAIN strs |-> IF i \in {ms, ss} THEN "stopped" ELSE strs[i]]
    /\ micStream' = NoHandle
    /\ systemStream' = NoHandle

\* audioCapture.ts:470-476  the rest of stop(): with a context it awaits
\* close() and goes on in StopResumes, without one it ends here.  k is the
\* start() whose catch called stop(), 0 for a call from outside.
StopRest(k) ==
    IF audioContext # NoHandle
    THEN /\ contexts' = [contexts EXCEPT ![audioContext] = "closing"]
         /\ stopCalls' = Append(stopCalls, [ctx |-> audioContext, for |-> k])
         /\ UNCHANGED <<audioContext, onAudioDataCallback>>
    ELSE /\ onAudioDataCallback' = NoHandle
         /\ UNCHANGED <<contexts, audioContext, stopCalls>>

\* audioCapture.ts:239-243  the catch of start() k: stop(), then rethrow.
\* cause is what threw: "mic" (getMicrophoneStream) or "setup".
Catch(k, ms, ss, strs, cause) ==
    /\ StopHandles(ms, ss, strs)
    /\ StopRest(k)
    /\ startCalls' = [startCalls EXCEPT ![k] =
                        IF audioContext # NoHandle
                        THEN [@ EXCEPT !.pc = "closing", !.cause = cause]
                        ELSE [@ EXCEPT !.pc = "done", !.result = "rejected",
                                       !.cause = cause]]

\* Plausible bug: start() stores the callback before it tests isCapturing.
Start_StoresFirst ==
    /\ Len(startCalls) < MaxStarts
    /\ onAudioDataCallback' = Len(startCalls) + 1
    /\ IF isCapturing
       THEN /\ startCalls' = Append(startCalls, NewStart("done", "resolved", TRUE))
            /\ UNCHANGED <<audioContext, contexts>>
       ELSE /\ contexts' = Append(contexts, "running")
            /\ audioContext' = Len(contexts) + 1
            /\ startCalls' = Append(startCalls, NewStart("mic", "pending", FALSE))
    /\ UNCHANGED <<micStream, systemStream, mixedProcessor, micProcessor, systemProcessor,
                   micGainNode, systemGainNode, isCapturing, streams, procs, stopCalls,
                   stopsMade, frames>>

\* audioCapture.ts:216-229  start() up to its first await.  The return at
\* :219-222 resolves the promise of the async function.
Start ==
    /\ Len(startCalls) < MaxStarts
    /\ IF isCapturing
       THEN /\ startCalls' = Append(startCalls, NewStart("done", "resolved", TRUE))
            /\ UNCHANGED <<onAudioDataCallback, audioContext, contexts>>
       ELSE /\ onAudioDataCallback' = Len(startCalls) + 1
            /\ contexts' = Append(contexts, "running")
            /\ audioContext' = Len(contexts) + 1
            /\ startCalls' = Append(startCalls, NewStart("mic", "pending", FALSE))
    /\ UNCHANGED <<micStream, systemStream, mixedProcessor, micProcessor, systemProcessor,
                   micGainNode, systemGainNode, isCapturing, streams, procs, stopCalls,
                   stopsMade, frames>>

\* getUserMedia of start() k settles (audioCapture.ts:229, :246-262): the
\* stream is stored and getDisplayMedia requested (:232), or the catch runs.
MicSettles(k, ok) ==
    /\ startCalls[k].pc = "mic"
    /\ IF ok
       THEN /\ streams' = Append(streams, "live")
            /\ micStream' = Len(streams) + 1
            /\ startCalls' = [startCalls EXCEPT ![k].pc = "sys"]
            /\ UNCHANGED <<audioContext, systemStream, mixedProcessor, micProcessor,
                           systemProcessor, micGainNode, systemGainNode, isCapturing,
                           onAudioDataCallback, contexts, procs, stopCalls>>
       ELSE Catch(k, micStream, systemStream, streams, "mic")
    /\ UNCHANGED <<stopsMade, frames>>

\* audioCapture.ts:304-393  setupAudioProcessing throws on a null context
\* (ctx.createGain, :309) or a null microphone stream (:313); on a context
\* that is closing createMediaStreamSource may throw or not.
SetupThrows(throws) ==
    \/ audioContext = NoHandle
    \/ micStream = NoHandle
    \/ (contexts[audioContext] # "running" /\ throws)

\* Plausible bug: the system processor is made without the test of
\* this.systemStream.
NewProcs_AlwaysSystem(got, ctx) ==
    <<[kind |-> "mic", live |-> TRUE, ctx |-> ctx],
      [kind |-> "system", live |-> TRUE, ctx |-> ctx],
      [kind |-> "mixed", live |-> TRUE, ctx |-> ctx]>>

\* audioCapture.ts:324, :342-351, :370  the script processors that
\* setupAudioProcessing creates on context ctx, in order: mic, system only
\* when there is a system stream, mixed
NewProcs(got, ctx) ==
    <<[kind |-> "mic", live |-> TRUE, ctx |-> ctx]>>
    \o (IF got THEN <<[kind |-> "system", live |-> TRUE, ctx |-> ctx]>> ELSE <<>>)
    \o <<[kind |-> "mixed", live |-> TRUE, ctx |-> ctx]>>

\* getDisplayMedia of start() k settles (audioCapture.ts:232, :264-299) with
\* an audio stream or with null; then setupAudioProcessing and :237-238.
SysSettles(k, got, throws) ==
    /\ startCalls[k].pc = "sys"
    /\ LET strs == IF got THEN Append(streams, "live") ELSE streams
           ss == IF got THEN Len(streams) + 1 ELSE NoHandle
           n == Len(procs)
           ctx == audioContext
       IN IF SetupThrows(throws)
          THEN Catch(k, micStream, ss, strs, "setup")
          ELSE /\ streams' = strs
               /\ systemStream' = ss
               /\ micGainNode' = MicGain
               /\ systemGainNode' = IF got THEN MixRatio ELSE systemGainNode
               /\ procs' = procs \o NewProcs(got, ctx)
               /\ micProcessor' = n + 1
               /\ systemProcessor' = IF got THEN n + 2 ELSE systemProcessor
               /\ mixedProcessor' = IF got THEN n + 3 ELSE n + 2
               /\ isCapturing' = TRUE
               /\ startCalls' = [startCalls EXCEPT ![k].pc = "done", ![k].result = "resolved"]
               /\ UNCHANGED <<audioContext, micStream, onAudioDataCallback, contexts,
                              stopCalls>>
    /\ UNCHANGED <<stopsMade, frames>>

\* audioCapture.ts:426-477  stop() called from outside, up to its await
Stop ==
    /\ stopsMade < MaxStops
    /\ stopsMade' = stopsMade + 1
    /\ StopHandles(micStream, systemStream, streams)
    /\ StopRest(0)
    /\ UNCHANGED <<startCalls, frames>>

\* audioContext.close() of stop() q resolves: :472, :475, and the rethrow of
\* the start() whose catch awaited it (:242)
StopResumes(q) ==
    /\ q \in DOMAIN stopCalls
    /\ contexts' = [contexts EXCEPT ![stopCalls[q].ctx] = "closed"]
    /\ audioContext' = NoHandle
    /\ onAudioDataCallback' = NoHandle
    /\ stopCalls' = SubSeq(stopCalls, 1, q - 1) \o SubSeq(stopCalls, q + 1, Len(stopCalls))
    /\ startCalls' = [k \in DOMAIN startCalls |->
                        IF k = stopCalls[q].for
                        THEN [startCalls[k] EXCEPT !.pc = "done", !.result = "rejected"]
                        ELSE startCalls[k]]
    /\ UNCHANGED <<micStream, systemStream, mixedProcessor, micProcessor, systemProcessor,
                   micGainNode, systemGainNode, isCapturing, streams, procs, stopsMade,
                   frames>>

\* onaudioprocess of processor p (audioCapture.ts:325-337, :352-364, :372-384)
AudioProcess(p) ==
    /\ Cardinality(frames) < MaxFrames
    /\ procs[p].live
    /\ contexts[procs[p].ctx] = "running"
    /\ onAudioDataCallback # NoHandle
    /\ frames' = frames \cup {[src |-> procs[p].kind, cb |-> onAudioDataCallback]}
    /\ UNCHANGED <<audioContext, micStream, systemStream, mixedProcessor, micProcessor,
                   systemProcessor, micGainNode, systemGainNode, isCapturing,
                   onAudioDataCallback, streams, contexts, procs, startCalls, stopCalls,
                   stopsMade>>

\* Plausible bug: only the upper limit is applied.
Clamp_UpperOnly(level) == IF level > 10 THEN 10 ELSE level

\* audioCapture.ts:411, :421  Math.max(0, Math.min(1, level)), in tenths
Clamp(level) ==
    LET upper == IF level < 10 THEN level ELSE 10       \* Math.min(1, level)
    IN IF upper > 0 THEN upper ELSE 0                   \* Math.max(0, ...)

\* the levels a caller passes, in tenths: below 0, inside, the limits, above 1
Levels == {0 - 5, 0, 3, 10, 15}

\* audioCapture.ts:419-424  setMicLevel(level)
SetMicLevel(level) ==
    /\ Len(levelCalls) < MaxLevelCalls
    /\ levelCalls' = Append(levelCalls, [which |-> "mic", level |-> level])
    /\ micGainNode' = IF micGainNode # NoGain THEN Clamp(level) ELSE micGainNode
    /\ UNCHANGED <<audioContext, micStream, systemStream, mixedProcessor, micProcessor,
                   systemProcessor, systemGainNode, isCapturing, onAudioDataCallback,
                   streams, contexts, procs, startCalls, stopCalls, stopsMade, frames>>

\* audioCapture.ts:409-414  setSystemAudioLevel(level)
SetSystemAudioLevel(level) ==
    /\ Len(levelCalls) < MaxLevelCalls
    /\ levelCalls' = Append(levelCalls, [which |-> "system", level |-> level])
    /\ systemGainNode' = IF systemGainNode # NoGain THEN Clamp(level) ELSE systemGainNode
    /\ UNCHANGED <<audioContext, micStream, systemStream, mixedProcessor, micProcessor,
                   systemProcessor, micGainNode, isCapturing, onAudioDataCallback,
                   streams, contexts, procs, startCalls, stopCalls, stopsMade, frames>>

InitCap ==
    /\ audioContext = NoHandle
    /\ micStream = NoHandle
    /\ systemStream = NoHandle
    /\ mixedProcessor = NoHandle
    /\ micProcessor = NoHandle
    /\ systemProcessor = NoHandle
    /\ micGainNode = NoGain
    /\ systemGainNode = NoGain
    /\ isCapturing = FALSE
    /\ onAudioDataCallback = NoHandle
    /\ streams = <<>>
    /\ contexts = <<>>
    /\ procs = <<>>
    /\ startCalls = <<>>
    /\ stopCalls = <<>>
    /\ stopsMade = 0
    /\ frames = {}
    /\ levelCalls = <<>>

(***************************************************************************)
(* convertToPCM16 (audioCapture.ts:395-404)                                *)
(*                                                                         *)
(* A sample is a record [nan, n]: NaN, or the number n / Scale.  The       *)
(* products s * 0x8000 and s * 0x7fff are exact in double precision for    *)
(* every float32 s in [-1, 1], so they are computed as fractions; the      *)
(* store into the Int16Array converts with ToInt16.                        *)
(***************************************************************************)
X8000 == 32768
X7fff == 32767

NaN == [nan |-> TRUE, n |-> 0]
Number(n) == [nan |-> FALSE, n |-> n]

\* the samples a buffer may hold: NaN and the multiples of 1 / Scale from
\* below -1 to above 1
Samples == {NaN} \cup {Number(n) : n \in (0 - Scale - 2)..(Scale + 2)}

\* the buffers passed in
Buffers == UNION {[1..len -> Samples] : len \in 0..MaxSamples}

\* ToInt16 of the fraction num / Scale: truncate toward zero, then wrap
\* modulo 2^16 into -2^15 .. 2^15 - 1 (NaN converts to 0)
ToInt16(nan, num) ==
    LET int == IF num < 0 THEN 0 - ((0 - num) \div Scale) ELSE num \div Scale
    IN IF nan THEN 0 ELSE ((int + 2^15) % 2^16) - 2^15

\* Plausible bug: the sample is not clamped.
ClampSample_None(x) == x

\* audioCapture.ts:399  Math.max(-1, Math.min(1, x)); NaN stays NaN
ClampSample(x) ==
    LET upper == IF x.n < Scale THEN x.n ELSE Scale
        lower == IF upper > 0 - Scale THEN upper ELSE 0 - Scale
    IN IF x.nan THEN x ELSE Number(lower)

\* audioCapture.ts:396-403  one store per index of the argument
ConvertToPCM16(a) ==
    [i \in 1..Len(a) |->
        LET s == ClampSample(a[i])
        IN \* NaN < 0 is false
           IF ~s.nan /\ s.n < 0 THEN ToInt16(s.nan, s.n * X8000)
           ELSE ToInt16(s.nan, s.n * X7fff)]

\* a processor callback calls convertToPCM16 on its input buffer
Convert ==
    /\ ~converted
    /\ int16Array' = ConvertToPCM16(float32Array)
    /\ converted' = TRUE
    /\ UNCHANGED float32Array

\* elevenLabsWebSocket.ts:324-329  new AudioBuffer(n)
Constructed(n) ==
    /\ maxChunks = n
    /\ chunkBuffer = <<>>
    /\ adds = <<>>
    /\ returns = <<>>
    /\ clears = 0

InitRest ==
    /\ variant = "dual"
    /\ InitFrames
    /\ Constructed(MaxChunks)
    /\ float32Array = <<>>
    /\ int16Array = <<>>
    /\ converted = FALSE

(***************************************************************************)
(* AudioBuffer (elevenLabsWebSocket.ts:319-360)                            *)
(***************************************************************************)
\* the chunks a caller passes: Int16Arrays, the empty one included
Chunks == {<<>>, <<1>>, <<2, 3>>}

\* elevenLabsWebSocket.ts:344-351  combined.set(chunk, offset) for each chunk
\* of the buffer in turn
RECURSIVE Combined(_)
Combined(b) == IF b = <<>> THEN <<>> ELSE b[1] \o Combined(Tail(b))

\* elevenLabsWebSocket.ts:341-355  flush() on buffer b: the value returned
\* (<<>> is null) and the buffer left
Flush(b) ==
    IF Len(b) = 0 THEN [val |-> <<>>, buffer |-> b]
    ELSE [val |-> <<Combined(b)>>, buffer |-> <<>>]

\* Plausible bug: add() flushes only once the count has passed maxChunks.
Add_After(c) ==
    LET pushed == Append(chunkBuffer, c)
        out == IF Len(pushed) > maxChunks THEN Flush(pushed)
               ELSE [val |-> <<>>, buffer |-> pushed]
    IN /\ Len(adds) < MaxAdds
       /\ adds' = Append(adds, c)
       /\ chunkBuffer' = out.buffer
       /\ returns' = Append(returns, [op |-> "add", val |-> out.val])
       /\ UNCHANGED <<maxChunks, clears>>

\* elevenLabsWebSocket.ts:331-339  add(chunk)
Add(c) ==
    LET pushed == Append(chunkBuffer, c)
        out == IF Len(pushed) >= maxChunks THEN Flush(pushed)
               ELSE [val |-> <<>>, buffer |-> pushed]
    IN /\ Len(adds) < MaxAdds
       /\ adds' = Append(adds, c)
       /\ chunkBuffer' = out.buffer
       /\ returns' = Append(returns, [op |-> "add", val |-> out.val])
       /\ UNCHANGED <<maxChunks, clears>>

Flushes == Len(SelectSeq(returns, LAMBDA r : r.op = "flush"))

\* elevenLabsWebSocket.ts:341-355  flush() called from outside
FlushOp ==
    /\ Flushes < MaxFlushes
    /\ chunkBuffer' = Flush(chunkBuffer).buffer
    /\ returns' = Append(returns, [op |-> "flush", val |-> Flush(chunkBuffer).val])
    /\ UNCHANGED <<maxChunks, adds, clears>>

\* elevenLabsWebSocket.ts:357-359  clear()
Clear ==
    /\ clears < MaxClears
    /\ clears' = clears + 1
    /\ chunkBuffer' = <<>>
    /\ UNCHANGED <<maxChunks, adds, returns>>

\* convertToPCM16 on its own: any buffer may be passed
InitBuffer ==
    /\ float32Array \in Buffers
    /\ int16Array = <<>>
    /\ converted = FALSE

(***************************************************************************)
(* Specifications                                                          *)
(***************************************************************************)
Init == InitBE /\ InitWS /\ InitApp /\ InitCap /\ InitRest

Enqueue == (\E t \in Transcripts : PostAgentRun(t)) /\ UNCHANGED notBE

Complete == (\E j \in Jobs, x \in Texts : GenerateResolve(j, x)) /\ UNCHANGED notBE

Fail == (\E j \in Jobs : GenerateReject(j)) /\ UNCHANGED notBE

PollResult == Poll /\ UNCHANGED notBE

NextBE ==
    \/ Enqueue
    \/ Complete
    \/ Fail
    \/ PollResult

\* the backend alone
SpecBE == Init /\ [][NextBE]_vars

\* the session as the App uses its mic connection: tag and callbacks fixed
ConnectCall == Connect("mic", "app") /\ UNCHANGED notWS

OpenEvent == (\E s \in Sockets : SockOpen(s)) /\ UNCHANGED notWS

ClosingHandshake == (\E s \in Sockets : SockClosing(s)) /\ UNCHANGED notWS

ErrorEvent == (\E s \in Sockets : SockFail(s)) /\ UNCHANGED notWS

CloseEvent == (\E s \in Sockets : SockClose(s)) /\ UNCHANGED notWS

DisconnectCall == Disconnect /\ UNCHANGED notWS

AudioFrame == CaptureFrame /\ UNCHANGED notWS

TimerTick == (\E t \in timers : KeepaliveTick(t)) /\ UNCHANGED notWS

NextWS ==
    \/ ConnectCall
    \/ OpenEvent
    \/ ClosingHandshake
    \/ ErrorEvent
    \/ CloseEvent
    \/ DisconnectCall
    \/ AudioFrame
    \/ TimerTick

\* one transcription session: connection life cycle, frames and keepalive
SpecWS == Init /\ [][NextWS]_vars

ConnectAny ==
    (\E src \in Sources, cbs \in CallbackSets : Connect(src, cbs)) /\ UNCHANGED notWS

NextSession ==
    \/ ConnectAny
    \/ OpenEvent
    \/ ClosingHandshake
    \/ ErrorEvent
    \/ CloseEvent
    \/ DisconnectCall

\* one transcription session under any caller of connect(): the connection
\* life cycle with the source tag and the callbacks free
SpecSession == Init /\ [][NextSession]_vars

\* The handshake of socket s ends: the open event, or the error and close
\* events of a handshake that failed or was abandoned by close().
HandshakeEnds(s) ==
    /\ s \in Sockets
    /\ s \notin established
    /\ SockOpen(s) \/ SockFail(s)
    /\ UNCHANGED notWS

NextHandshake ==
    \/ ConnectCall
    \/ OpenEvent
    \/ ErrorEvent
    \/ CloseEvent
    \/ DisconnectCall

\* the connection life cycle with every handshake reaching an outcome
FairSession ==
    /\ Init
    /\ [][NextHandshake]_vars
    /\ \A s \in 1..MaxSockets : WF_vars(HandshakeEnds(s))

Message == (\E s \in Sockets, m \in Messages : MessageEvent(s, m)) /\ UNCHANGED notWS

FetchDone ==
    (\E id \in pendingFetch, r \in BOOLEAN : FetchSettle(id, r)) /\ UNCHANGED notWS

NextMsg ==
    \/ ConnectCall
    \/ OpenEvent
    \/ Message
    \/ FetchDone

\* the inbound messages of the App's mic session while its sockets stay up
SpecMsg == Init /\ [][NextMsg]_vars

Toggle == ToggleListening /\ UNCHANGED notApp

PrefetchDone == (\E ok \in BOOLEAN : PrefetchSettles(ok)) /\ UNCHANGED notApp

AppOpenEvent ==
    (\E o \in Objects, ok \in BOOLEAN : ObjOpen(o, ok)) /\ UNCHANGED notApp

AppErrorEvent == (\E o \in Objects : ObjFail(o)) /\ UNCHANGED notApp

AppCloseEvent == (\E o \in Objects : ObjClose(o)) /\ UNCHANGED notApp

AppMessage ==
    (\E o \in Objects, kind \in MessageKinds : ObjMessage(o, kind)) /\ UNCHANGED notApp

AppFetchDone ==
    (\E p \in appPending, r \in BOOLEAN : ObjFetchSettle(p, r)) /\ UNCHANGED notApp

StopCall == StopAndGetFeedback /\ UNCHANGED notApp

NextApp ==
    \/ PrefetchDone
    \/ Toggle
    \/ AppOpenEvent
    \/ AppErrorEvent
    \/ AppCloseEvent
    \/ AppMessage
    \/ AppFetchDone
    \/ StopCall

\* the App with its mic and system sessions
SpecApp == Init /\ [][NextApp]_vars

MicLevel ==
    (\E l \in Levels : SetMicLevel(l)) /\ UNCHANGED notLevel

SystemLevel ==
    (\E l \in Levels : SetSystemAudioLevel(l)) /\ UNCHANGED notLevel

StartCapture == Start /\ UNCHANGED notCap

MicrophoneSettles == (\E k \in StartIds, ok \in BOOLEAN : MicSettles(k, ok)) /\ UNCHANGED notCap

SystemAudioSettles ==
    (\E k \in StartIds, got \in BOOLEAN, throws \in BOOLEAN : SysSettles(k, got, throws))
    /\ UNCHANGED notCap

StopCapture == Stop /\ UNCHANGED notCap

ContextClosed == (\E q \in DOMAIN stopCalls : StopResumes(q)) /\ UNCHANGED notCap

ProcessorFires == (\E p \in DOMAIN procs : AudioProcess(p)) /\ UNCHANGED notCap

NextCap ==
    \/ StartCapture
    \/ MicrophoneSettles
    \/ SystemAudioSettles
    \/ StopCapture
    \/ ContextClosed
    \/ ProcessorFires

\* one AudioCapture object under any caller
SpecCap == Init /\ [][NextCap]_vars

NextGain ==
    \/ StartCapture
    \/ MicrophoneSettles
    \/ SystemAudioSettles
    \/ ContextClosed
    \/ MicLevel
    \/ SystemLevel

\* one AudioCapture object being started, and the callers of its level setters
SpecGain == Init /\ [][NextGain]_vars

ConvertCall == Convert /\ UNCHANGED notPCM

NextPCM == ConvertCall

\* convertToPCM16 applied to one buffer
InitPCM ==
    /\ InitBE /\ InitWS /\ InitApp /\ InitCap
    /\ InitBuffer
    /\ variant = "dual"
    /\ InitFrames
    /\ Constructed(MaxChunks)

SpecPCM == InitPCM /\ [][NextPCM]_vars

AddCall == (\E c \in Chunks : Add(c)) /\ UNCHANGED notAB

FlushCall == FlushOp /\ UNCHANGED notAB

ClearCall == Clear /\ UNCHANGED notAB

NextAB ==
    \/ AddCall
    \/ FlushCall
    \/ ClearCall

\* one AudioBuffer of any size under any caller
InitAB ==
    /\ InitBE /\ InitWS /\ InitApp /\ InitCap
    /\ variant = "dual"
    /\ InitFrames
    /\ float32Array = <<>>
    /\ int16Array = <<>>
    /\ converted = FALSE
    /\ \E n \in 0..MaxChunks : Constructed(n)

SpecAB == InitAB /\ [][NextAB]_vars

\* Plausible bug: stop() of the capture also disconnects the session.
StopAlone_Disconnects == Stop /\ Disconnect /\ UNCHANGED <<beVars, appVars>>

\* audioCapture.ts:426-477  stop() beside a transcription session and the
\* backend: it reads and writes the fields of the AudioCapture only
StopAlone == Stop /\ UNCHANGED <<beVars, wsVars, appVars>>

\* part_002:245-253  disconnect() beside the backend and the capture
DisconnectAlone == Disconnect /\ UNCHANGED <<beVars, appVars, capVars>>

\* One capture, one session and the backend side by side; every caller
\* makes at most MaxCancel calls, the devices are granted, and the advisory
\* calls stay in flight.
CancelStart == Len(startCalls) < MaxCancel /\ StartCapture

MicrophoneGranted == (\E k \in StartIds : MicSettles(k, TRUE)) /\ UNCHANGED notCap

SystemAudioGranted == (\E k \in StartIds : SysSettles(k, TRUE, FALSE)) /\ UNCHANGED notCap

CancelStop ==
    /\ stopsMade < MaxCancel
    /\ StopAlone
    /\ cancelled' = cancelled \cup (IF Connected /\ keepaliveInterval # NoTimer
                                    THEN {"stop"} ELSE {})
    /\ UNCHANGED <<levelCalls, pcmVars, routeVars, abVars>>

CancelConnect == Len(readyState) < MaxCancel /\ ConnectCall

CancelDisconnect ==
    /\ disconnectCalls < MaxCancel
    /\ DisconnectAlone
    /\ cancelled' = cancelled \cup (IF InFlight # {} THEN {"disconnect"} ELSE {})
    /\ UNCHANGED <<levelCalls, pcmVars, routeVars, abVars>>

CancelEnqueue == Len(responses) < MaxCancel /\ PostAgentRun("a") /\ UNCHANGED notBE

NextCancel ==
    \/ CancelStart
    \/ MicrophoneGranted
    \/ SystemAudioGranted
    \/ CancelStop
    \/ ContextClosed
    \/ CancelConnect
    \/ OpenEvent
    \/ CancelDisconnect
    \/ CancelEnqueue

\* the capture, one transcription session and the backend
SpecCancel == Init /\ [][NextCancel]_vars

\* The actions of the App mounted, with the frames of its capture
RoutePrefetch ==
    \/ variant = "dual" /\ (\E ok \in BOOLEAN : PrefetchSettles(ok)) /\ UNCHANGED notApp
    \/ variant = "mixed" /\ (\E ok \in BOOLEAN : PrefetchTokenSettles(ok))
                         /\ UNCHANGED notRoute

RouteToggle ==
    \/ variant = "dual" /\ ToggleListening /\ UNCHANGED notApp
    \/ variant = "mixed" /\ ToggleListeningMixed /\ UNCHANGED notRoute

RouteStop ==
    \/ variant = "dual" /\ StopAndGetFeedback /\ UNCHANGED notApp
    \/ variant = "mixed" /\ StopAndGetFeedbackMixed /\ UNCHANGED notRoute

PauseCall == TogglePause /\ UNCHANGED notApp

PauseEffectRuns == PauseEffect /\ UNCHANGED notApp

FrameCaptured ==
    /\ \E src \in FrameSources : HandleAudioData(src)
    /\ UNCHANGED <<appVars, notRoute>>

NextRoute ==
    \/ RoutePrefetch
    \/ RouteToggle
    \/ AppOpenEvent
    \/ AppCloseEvent
    \/ RouteStop
    \/ PauseCall
    \/ PauseEffectRuns
    \/ FrameCaptured

\* either App with its sessions and the frames of its capture
InitRoute ==
    /\ InitBE /\ InitWS /\ InitApp /\ InitCap
    /\ float32Array = <<>>
    /\ int16Array = <<>>
    /\ converted = FALSE
    /\ variant \in Variants
    /\ InitFrames
    /\ Constructed(MaxChunks)

SpecRoute == InitRoute /\ [][NextRoute]_vars

NextRestart ==
    \/ RoutePrefetch
    \/ RouteToggle
    \/ AppOpenEvent
    \/ AppErrorEvent
    \/ AppCloseEvent
    \/ RouteStop
    \/ PauseCall
    \/ PauseEffectRuns

\* Either App being started and stopped.  A prefetchToken(s) call that is
\* waiting for its fetch or its retry timer eventually gets its tokens: the
\* fetch settles, and a failed one is retried every two seconds
\* (App.tsx:34-37, part_003:44-47).  Nothing is assumed of the user.
FairRestart == InitRoute /\ [][NextRestart]_vars /\ WF_vars(RoutePrefetch)

(***************************************************************************)
(* Properties of the backend                                               *)
(***************************************************************************)
\* every result ever produced that is still to be polled or was polled, in poll order
Delivered == Flatten(pollLog) \o jobStore

Last(s) == s[Len(s)]

\* C1 (as claimed): at most one advisory call (generate) is in flight at any
\* time; a later job's call does not start before every earlier call settled.
C1_SingleFlight == Cardinality(InFlight) <= 1

\* C1 (amended): there is no queue between POST /agent/run and the advisory
\* call.  Every accepted job has its call started by the accepting request:
\* a job whose runAgentLoop has not settled is in flight, however many other
\* calls are in flight, so the calls of several jobs overlap.
C1_StartedOnAccept ==
    /\ \A i \in 1..Len(responses) :
          responses[i].status = 200 => responses[i].job \in Jobs
    /\ \A j \in Jobs : loopPromise[j] = "pending" => j \in InFlight
    /\ Cardinality(InFlight) =
          Cardinality({i \in 1..Len(responses) : responses[i].status = 200})
            - Cardinality({j \in Jobs : call[j] \in {"ok", "threw"}})

C1_Witness == Cardinality(InFlight) >= 2

\* C2 (as claimed): N enqueues followed by N successful completions, in any
\* completion order, make the polls return the results in enqueue order.
C2_EnqueueOrder ==
    (phased /\ InFlight = {}) => JobsOf(Delivered) = [i \in 1..Len(call) |-> i]

\* C2 (amended): N enqueues followed by N successful completions make N
\* successive polls return the N results in the order the advisory calls
\* completed, and every later poll returns no result.
C2_CompletionOrder ==
    phased =>
       /\ \A i \in 1..Len(pollLog) :
             pollLog[i] = IF i <= Len(doneOrder) THEN <<doneOrder[i]>> ELSE <<>>
       /\ jobStore = SubSeq(doneOrder, Len(pollLog) + 1, Len(doneOrder))

C2_Witness ==
    /\ phased
    /\ Len(doneOrder) = 2
    /\ doneOrder[1].job = 2
    /\ Len(pollLog) = 3
    /\ pollLog[3] = <<>>

\* C3 (as claimed): when the advisory call of job k fails, a non-empty
\* placeholder result for job k is appended to the result buffer.
C3_PlaceholderOnFailure ==
    \A j \in Jobs : call[j] = "threw" =>
        \E i \in 1..Len(Delivered) : Delivered[i].job = j /\ Delivered[i].text # ""

\* C3 (amended): when the advisory call of job k fails, nothing is appended
\* for job k: the error is only logged, the result buffer holds exactly the
\* results of the calls that succeeded, and no poll yields anything for k.
C3_NoResultOnFailure ==
    /\ \A j \in Jobs : call[j] = "threw" =>
          \A i \in 1..Len(Delivered) : Delivered[i].job # j
    /\ Len(Delivered) = Cardinality({j \in Jobs : call[j] = "ok"})

C3_Witness ==
    /\ Len(call) = 1
    /\ call[1] = "threw"
    /\ pollLog = << <<>> >>

C5_PollStep ==
    Len(pollLog') = Len(pollLog) + 1 =>
        IF jobStore = <<>>
        THEN Last(pollLog') = <<>> /\ jobStore' = <<>>
        ELSE Last(pollLog') = <<Head(jobStore)>> /\ jobStore' = Tail(jobStore)

C5_PollOnce ==
    /\ [](Delivered = doneOrder)
    /\ [][C5_PollStep]_vars

C5_Witness ==
    /\ Len(pollLog) = 3
    /\ pollLog[1] = <<>>
    /\ pollLog[2] # <<>>
    /\ pollLog[3] # <<>>
    /\ jobStore # <<>>

\* C6 (as claimed): enqueue always succeeds, for every transcript text.
C6_AlwaysAccepted == \A i \in 1..Len(responses) : responses[i].status = 200

\* C6 (amended): for every non-empty transcript POST /agent/run replies 200
\* in the step that starts the job's advisory call, so the reply precedes
\* the completion of that call and does not depend on it; an empty or
\* missing transcript is refused with 400 and starts nothing.  A reply once
\* given is never changed.
C6_ReplyStep ==
    /\ IsPrefix(responses, responses')
    /\ Len(responses') = Len(responses) + 1 =>
          LET r == Last(responses') IN
          IF Truthy(r.transcript)
          THEN /\ r.status = 200
               /\ r.job \notin Jobs
               /\ call' = Append(call, "inflight")
               /\ transcriptOf' = Append(transcriptOf, r.transcript)
          ELSE /\ r.status = 400
               /\ call' = call

C6_RepliesBeforeCompletion == [][C6_ReplyStep]_vars

C6_Witness ==
    /\ Len(responses) = 2
    /\ responses[1].status = 400
    /\ responses[2].status = 200
    /\ call[responses[2].job] = "inflight"

\* C7 (as claimed): messageHistory holds one user entry for every processed
\* job, failed ones included.
C7_EveryProcessedJob ==
    \A j \in Jobs : call[j] # "inflight" =>
        \E i \in 1..Len(messageHistory) : messageHistory[i] = UserEntry(j)

RECURSIVE ExpectedHistory(_)
ExpectedHistory(done) ==
    IF done = <<>> THEN <<>>
    ELSE LET r == Head(done) IN
         (IF r.text # ""
          THEN <<[role |-> "user", content |-> transcriptOf[r.job], job |-> r.job],
                 [role |-> "assistant", content |-> r.text, job |-> r.job]>>
          ELSE <<[role |-> "user", content |-> transcriptOf[r.job], job |-> r.job]>>)
         \o ExpectedHistory(Tail(done))

\* C7 (amended): messageHistory is append-only and holds, for each job whose
\* advisory call succeeded, in completion order, one user entry with the
\* job's transcript followed by one assistant entry with the job's response
\* exactly when that response is non-empty; a job whose call failed leaves
\* no entry.  Entries are never modified or removed.
C7_HistoryOfCompletedJobs ==
    /\ [](messageHistory = ExpectedHistory(doneOrder))
    /\ [][IsPrefix(messageHistory, messageHistory')]_vars

C7_Witness ==
    /\ Len(doneOrder) = 2
    /\ doneOrder[1].text = ""
    /\ doneOrder[2].text # ""
    /\ \E j \in Jobs : call[j] = "threw"
    /\ Len(messageHistory) = 3

C9_SilentAfterDisconnect ==
    [][\A s \in disconnected : sent'[s] = sent[s]]_vars

C9_Witness ==
    \E s, n \in Sockets :
        /\ s \in disconnected
        /\ s < n
        /\ sent[s] # <<>>
        /\ sent[n] # <<>>

\* C10 (as claimed): a keepalive tick transmits nothing when a real audio
\* frame was sent on the connection since the previous tick.
C10_SilenceOnlyWhenIdle ==
    [][(ticks' = ticks + 1 /\ realSinceTick) => sent' = sent]_vars

\* C10 (amended): a keepalive tick on an open connection transmits exactly
\* one silence frame whether or not real audio was sent since the previous
\* tick; a tick while the session is not open transmits nothing.
C10_TickStep ==
    ticks' = ticks + 1 =>
        IF Connected
        THEN sent' = [sent EXCEPT ![ws] = Append(@, "silence")]
        ELSE sent' = sent

C10_SilenceEveryTick == [][C10_TickStep]_vars

C10_Witness ==
    /\ ticks = 1
    /\ \E s \in Sockets : sent[s] = <<"audio", "silence">>

(***************************************************************************)
(* Properties of the transcription session                                 *)
(***************************************************************************)
SessionFields == <<ws, isConnected, keepaliveInterval, silentChunk, readyState, timers>>

\* C11: sendAudioChunk on a session that is not open (no socket, the flag
\* unset, or the socket connecting, closing or closed) puts nothing on any
\* wire, raises nothing (no onError callback), and leaves the connection
\* state and the keepalive timer as they were.
C11_DropWhenNotOpen ==
    [][(audioCalls' = audioCalls + 1 /\ ~Connected)
        => (sent' = sent /\ cbLog' = cbLog /\ UNCHANGED SessionFields)]_vars

\* a frame was offered and nothing real went out, and the session holds a
\* socket that is flagged connected but closing
C11_Witness ==
    /\ audioCalls = 1
    /\ \A s \in Sockets : \A i \in 1..Len(sent[s]) : sent[s][i] # "audio"
    /\ isConnected /\ ws # NoSocket /\ readyState[ws] = "CLOSING"

Live == {s \in Sockets : readyState[s] \in {"CONNECTING", "OPEN"}}

\* C12 (as claimed): the session never has more than one live (connecting or
\* open) underlying WebSocket.
C12_OneLiveSocket == Cardinality(Live) <= 1

\* C13 (as claimed): connect() on an already open session fails: the promise
\* of every early return is rejected.
C13_EarlyReturnRejects == earlyReturns > 0 => earlyResult = "rejected"

\* C13 (amended): connect() on a session that is open (flag set and a socket
\* held) logs a warning and resolves without an error; it creates no socket
\* and leaves the connection, the callbacks and the source tag unchanged.
C13_EarlyReturnResolves ==
    [][earlyReturns' = earlyReturns + 1
        => /\ earlyResult' = "resolved"
           /\ UNCHANGED <<source, callbacks, SessionFields, promise, connArgs>>]_vars

\* an early return on a session whose tag and callbacks differ from some
\* connect() argument that could have replaced them
C13_Witness ==
    /\ earlyReturns > 0
    /\ isConnected /\ ws # NoSocket
    /\ callbacks = "app"

\* callbacks of kind cb logged for message id
CallbacksFor(cb, id) == {i \in 1..Len(cbLog) : cbLog[i].cb = cb /\ cbLog[i].msg = id}

PostsFor(id) == {i \in 1..Len(posts) : posts[i].msg = id}

IsCommitted(i) ==
    /\ msgLog[i].msg.kind = "committed_transcript"
    /\ msgLog[i].msg.text # ""
    /\ msgLog[i].reg = "app"

\* C14 (as claimed): every committed-transcript message with non-empty text,
\* in either format, whose handling has finished invoked
\* onCommittedTranscript exactly once and posted to /agent/run exactly once.
C14_CallbackAndPostOnce ==
    \A i \in 1..Len(msgLog) :
        IsCommitted(i) /\ i \notin pendingFetch
            => /\ Cardinality(CallbacksFor("onCommittedTranscript", i)) = 1
               /\ Cardinality(PostsFor(i)) = 1

\* C15 (as claimed): transcript callbacks are delivered in the order the
\* messages arrived.
C15_ArrivalOrder ==
    \A i, k \in 1..Len(cbLog) :
        (i < k /\ cbLog[i].msg > 0 /\ cbLog[k].msg > 0) => cbLog[i].msg <= cbLog[k].msg

\* C17 (as claimed): the error of a connecting or open socket invokes onError
\* with the tag that socket was connected with, leaves the session closed
\* with the keepalive stopped, and starts no new socket.
C17_ErrorStep ==
    [][\A s \in Sockets :
          (s \in errored' \ errored /\ readyState[s] \in {"CONNECTING", "OPEN"})
            => /\ connArgs[s].cbs = "app"
                  => \E i \in Len(cbLog) + 1 .. Len(cbLog') :
                        cbLog'[i].cb = "onError" /\ cbLog'[i].src = connArgs[s].src
               /\ ~isConnected' /\ timers' = {}
               /\ Len(readyState') = Len(readyState)]_vars

IsProtocolError(m) == m = Malformed \/ m.kind = "input_error"

\* C18 (as claimed): every malformed message and every input_error message
\* is surfaced through onError.
C18_ProtocolErrorSurfaced ==
    \A i \in 1..Len(msgLog) :
        (IsProtocolError(msgLog[i].msg) /\ msgLog[i].reg = "app")
            => CallbacksFor("onError", i) # {}

\* C18 (amended): an input_error in the message_type format is surfaced
\* through onError with the session's tag; a malformed message, and an
\* input_error in the legacy type format, is only logged and invokes no
\* callback.  Each leaves the connection state unchanged: an open session
\* stays open with its keepalive armed.
C18_ProtocolErrorStep ==
    [][\A m \in Messages :
          (Len(msgLog') = Len(msgLog) + 1 /\ msgLog'[Len(msgLog')].msg = m
              /\ IsProtocolError(m))
            => /\ UNCHANGED <<SessionFields, posts, pendingFetch>>
               /\ cbLog' = IF m.fmt = "message_type"
                           THEN cbLog \o Notify("onError", "", Len(msgLog'))
                           ELSE cbLog]_vars

\* both a malformed message and a surfaced input_error were handled and the
\* session is still open with its keepalive armed
C18_Witness ==
    /\ \E i \in 1..Len(msgLog) : msgLog[i].msg = Malformed
    /\ \E i \in 1..Len(msgLog) : CallbacksFor("onError", i) # {}
    /\ Connected /\ timers # {}

Quiet ==
    /\ ws = NoSocket
    /\ ~isConnected
    /\ keepaliveInterval = NoTimer
    /\ timers = {}
    /\ ~silentChunk

\* C19: disconnect() always leaves the session with no socket, not connected
\* and no keepalive timer, invokes no callback, and changes nothing when the
\* session is already in that state, so a second call in a row is a no-op.
C19_DisconnectIdempotent ==
    [][disconnectCalls' = disconnectCalls + 1
        => /\ Quiet'
           /\ cbLog' = cbLog
           /\ Quiet => UNCHANGED <<SessionFields, promise, sent, disconnected>>]_vars

\* two calls of disconnect() met only one socket: one of them found the
\* session idle or already disconnected
C19_Witness ==
    /\ disconnectCalls = 2
    /\ Cardinality(disconnected) = 1
    /\ Len(readyState) = 1
    /\ Quiet

\* C16: with the App's mic and system sessions, every callback and every
\* post to the dispatcher raised on an object carries the tag the App gave
\* that object: nothing of the mic session carries "system", or the reverse.
C16_OwnSourceTag ==
    /\ \A c \in appLog : c.src = objs[c.obj].tag
    /\ \A c \in appPosts : c.src = objs[c.obj].tag

\* both sessions are open, the mic session forwarded and reported a
\* committed transcript, and the system session raised a callback too
C16_Witness ==
    \E m, y \in Objects :
        /\ objs[m].tag = "mic" /\ objs[y].tag = "system"
        /\ objs[m].rs = "OPEN" /\ objs[y].rs = "OPEN"
        /\ \E c \in appLog : c.obj = y
        /\ \E c \in appLog : c.obj = m /\ c.cb = "onCommittedTranscript"
        /\ \E c \in appPosts : c.obj = m

(***************************************************************************)
(* Properties of the audio capture                                         *)
(***************************************************************************)
CaptureHandles ==
    <<audioContext, micStream, systemStream, mixedProcessor, micProcessor, systemProcessor,
      micGainNode, systemGainNode, isCapturing, onAudioDataCallback>>

\* C20 (as claimed): start() called while the capture is running fails: its
\* promise is rejected.
C20_SecondStartRejected ==
    \A k \in StartIds : startCalls[k].whileRunning => startCalls[k].result = "rejected"

\* C20 (amended): start() called while isRunning() is true logs a warning and
\* resolves without an error; it leaves the streams, processors, gain nodes,
\* audio context and frame callback of the running session in place.
C20_SecondStartIgnored ==
    [][(Len(startCalls') = Len(startCalls) + 1 /\ isCapturing)
        => /\ startCalls'[Len(startCalls')].result = "resolved"
           /\ UNCHANGED <<CaptureHandles, streams, contexts, procs>>]_vars

\* a start() was made while running, and the session of the earlier start()
\* still runs with that start's callback
C20_Witness ==
    \E k \in StartIds :
        /\ startCalls[k].whileRunning
        /\ isCapturing
        /\ onAudioDataCallback \notin {NoHandle, k}
        /\ micStream # NoHandle /\ streams[micStream] = "live"

NoSystemProcessor == \A p \in DOMAIN procs : procs[p].kind # "system"

SystemFailedIn(k) ==
    /\ startCalls[k].pc = "sys"
    /\ startCalls'[k].pc # "sys"
    /\ Len(streams') = Len(streams)
    /\ audioContext # NoHandle
    /\ micStream # NoHandle
    /\ contexts[audioContext] = "running"

Released ==
    /\ ~isCapturing
    /\ audioContext = NoHandle
    /\ micStream = NoHandle
    /\ systemStream = NoHandle
    /\ mixedProcessor = NoHandle
    /\ micProcessor = NoHandle
    /\ systemProcessor = NoHandle
    /\ micGainNode = NoGain
    /\ systemGainNode = NoGain
    /\ onAudioDataCallback = NoHandle

\* C22 (as claimed): when the start() whose microphone acquisition failed
\* rejects, the engine is not running and holds no stream, processor, gain
\* node, context or callback.
C22_MicFailureReleases ==
    [][\A k \in StartIds :
          (startCalls[k].result = "pending" /\ startCalls'[k].result = "rejected"
              /\ startCalls'[k].cause = "mic")
            => Released']_vars

\* the sequence s without its element q
Without(s, q) == SubSeq(s, 1, q - 1) \o SubSeq(s, q + 1, Len(s))

\* a stop() called from outside returns in this step: at once when there is
\* no context, else when audioContext.close() resolves
StopReturns ==
    \/ stopsMade' = stopsMade + 1 /\ audioContext = NoHandle
    \/ \E q \in DOMAIN stopCalls :
          stopCalls[q].for = 0 /\ stopCalls' = Without(stopCalls, q)

\* C23 (as claimed): when stop() returns the engine is not running, every
\* handle is null and every acquired stream has been stopped.
C23_StopReleases ==
    [][StopReturns
        => Released' /\ \A i \in DOMAIN streams' : streams'[i] = "stopped"]_vars

\* the level in tenths brought into [0, 1]
InUnitRange(level) == IF level < 0 THEN 0 ELSE IF level > 10 THEN 10 ELSE level

C27_PCM16Range ==
    converted =>
        /\ Len(int16Array) = Len(float32Array)
        /\ \A i \in 1..Len(float32Array) :
              /\ int16Array[i] \in (0 - 32768)..32767
              /\ (~float32Array[i].nan /\ float32Array[i].n > Scale)
                    => int16Array[i] = 32767
              /\ (~float32Array[i].nan /\ float32Array[i].n < 0 - Scale)
                    => int16Array[i] = 0 - 32768

\* a buffer holding a sample above 1 and a sample below -1 was converted
C27_Witness ==
    /\ converted
    /\ float32Array = <<Number(Scale + 1), Number(0 - Scale - 1)>>
    /\ int16Array = <<32767, 0 - 32768>>

(***************************************************************************)
(* Properties of the App's starts and stops                                *)
(***************************************************************************)
\* a toggleListening is between its first await and its end
StartInProgress == \E o \in Objects : objs[o].then # "none"

\* C28: whatever toggleListening and stopAndGetFeedback calls were made, at
\* most one open connection exists per audio source, and when the App is not
\* listening and no start is in progress (the last start failed, or the
\* session was stopped) no connection is open.
C28_OneOpenPerSource ==
    /\ \A a, b \in Objects :
          (objs[a].rs = "OPEN" /\ objs[b].rs = "OPEN" /\ objs[a].tag = objs[b].tag)
              => a = b
    /\ (~isListening /\ ~StartInProgress) => \A o \in Objects : objs[o].rs # "OPEN"

\* C29: no token is handed to connect() twice: the objects the App made
\* were all connected with different tokens.
C29_TokenUsedOnce ==
    \A a, b \in Objects : objs[a].token = objs[b].token => a = b

(***************************************************************************)
(* Properties of the frames sent to the sessions                           *)
(***************************************************************************)

\* C25: for each audio source the frames passed to ws.send are in the order
\* the capture produced them: a frame sent later has a higher sequence
\* number, so none is reordered or sent twice, and every frame sent is one
\* the capture produced (frames may be missing: dropped while the session
\* was not open or the App paused).
C25_CaptureOrder ==
    /\ \A i, j \in DOMAIN wire :
          (i < j /\ wire[i].src = wire[j].src) => wire[i].n < wire[j].n
    /\ \A i \in DOMAIN wire : wire[i].n \in 1..captured[wire[i].src]

\* the first and the third mic frame were sent on the mic session, the
\* second one was dropped
C25_Witness ==
    /\ variant = "dual"
    /\ captured["mic"] = 3
    /\ micWsRef # NoObject
    /\ wire = <<[obj |-> micWsRef, src |-> "mic", n |-> 1],
                [obj |-> micWsRef, src |-> "mic", n |-> 3]>>

\* C30: a frame is sent only on the session of its own source.  With the
\* dual App a sent frame is a mic frame on an object made for the mic or a
\* system frame on an object made for the system audio, and no mixed frame
\* is sent; with the mixed App only mixed frames are sent.
C30_MatchingConnection ==
    /\ \A i \in DOMAIN wire :
          /\ wire[i].src = objs[wire[i].obj].tag
          /\ variant = "dual" => wire[i].src \in {"mic", "system"}
          /\ variant = "mixed" => wire[i].src = "mixed"
    /\ lastFrame.to \subseteq {o \in Objects : objs[o].tag = lastFrame.src}
    /\ (variant = "dual" /\ lastFrame.src = "mixed") => lastFrame.to = {}
    /\ (variant = "mixed" /\ lastFrame.src \in {"mic", "system"}) => lastFrame.to = {}

\* the dual App, not paused and with both sessions open, has sent a mic
\* frame and a system frame and was then handed a mixed frame, which went
\* nowhere
C30_Witness ==
    /\ variant = "dual"
    /\ ~isPausedRef
    /\ RefConnected(micWsRef) /\ RefConnected(systemWsRef)
    /\ lastFrame = [src |-> "mixed", n |-> 1, to |-> {}]
    /\ \E i \in DOMAIN wire : wire[i].src = "mic" /\ wire[i].obj = micWsRef
    /\ \E i \in DOMAIN wire : wire[i].src = "system" /\ wire[i].obj = systemWsRef

(***************************************************************************)
(* Properties of cancellation                                              *)
(***************************************************************************)
\* a step of stop(): the call, or its continuation after audioContext.close()
StopStep == stopsMade' = stopsMade + 1 \/ Len(stopCalls') < Len(stopCalls)

\* C26: every step of AudioCapture.stop() leaves the transcription session
\* as it was (socket, isConnected, keepalive timer, everything it holds), and
\* every disconnect() of the session leaves the backend as it was: the
\* result buffer, the conversation history and the calls in flight.
C26_IndependentCancellation ==
    /\ [][StopStep => UNCHANGED wsVars]_vars
    /\ [][disconnectCalls' = disconnectCalls + 1 => UNCHANGED beVars]_vars

\* stop() was called on the running capture while the session was open with
\* its keepalive armed, and has returned; disconnect() was then called with
\* an advisory call in flight, which still is
C26_Witness ==
    /\ cancelled = {"stop", "disconnect"}
    /\ stopsMade = 1 /\ stopCalls = <<>> /\ ~isCapturing
    /\ \E k \in StartIds : startCalls[k].result = "resolved"
    /\ disconnectCalls = 1 /\ ws = NoSocket
    /\ InFlight # {}

(***************************************************************************)
(* Properties of pausing                                                   *)
(***************************************************************************)
\* a step of toggleListening that pauses or resumes: isPaused flips while no
\* start is in progress
PauseStep == isPaused' # isPaused /\ ~StartInProgress

TokenReady ==
    IF variant = "dual"
    THEN elevenLabsTokensRef.mic # NoToken
    ELSE elevenLabsTokenRef # NoToken

\* stopAndGetFeedback has ended a listening session and cleared the token
SessionEnded == ~isListening /\ tokensFetched > 0 /\ ~TokenReady

\* C32: after stopAndGetFeedback ended a listening session and cleared the
\* stored token, a token is eventually there again, so that toggleListening
\* is not refused.
C32_TokenRefetched == SessionEnded ~> TokenReady

(***************************************************************************)
(* Properties of a session that is connected again                         *)
(***************************************************************************)
\* the close event of a socket that disconnect() closed is dispatched while
\* the session holds a newer socket
LateClose ==
    \E s \in disconnected :
        /\ ws # NoSocket /\ s # ws
        /\ readyState[s] # "CLOSED" /\ readyState'[s] = "CLOSED"

\* C33: when connect() follows disconnect() on the same object, the late
\* close event of the old socket leaves the new connection alone: the socket
\* reference, the connected flag and the keepalive timer are unchanged.
C33_LateCloseHarmless ==
    [][LateClose => UNCHANGED <<ws, isConnected, keepaliveInterval, timers>>]_vars

(***************************************************************************)
(* Properties of overlapping start() and stop() calls                      *)
(***************************************************************************)

\* C34: whenever isRunning() is true the engine holds its audio context, its
\* frame callback and the microphone stream.
C34_RunningHoldsHandles ==
    isCapturing => /\ audioContext # NoHandle
                   /\ onAudioDataCallback # NoHandle
                   /\ micStream # NoHandle


\* a start() is between its call and its return
StartPending == \E k \in StartIds : startCalls[k].pc # "done"

\* C35: a stop() called when no start() is in progress leaves no acquired
\* media stream live.  Streams are stopped by the synchronous part of stop()
\* only, so a stream live after the call is still live when that stop() has
\* completed.
C35_NoStreamLeftLive ==
    [][(stopsMade' = stopsMade + 1 /\ ~StartPending)
        => \A i \in DOMAIN streams' : streams'[i] = "stopped"]_vars

(***************************************************************************)
(* Properties of the backend's results and history                         *)
(***************************************************************************)
\* the results poll() has returned so far, in order (an empty jobStore makes
\* poll() return undefined, which is no result)
Polled ==
    LET got == SelectSeq(pollLog, LAMBDA e : e # <<>>)
    IN [i \in 1..Len(got) |-> got[i][1]]

\* C36: the results poll() has returned so far plus the results still in
\* jobStore are as many as the advisory calls that completed successfully,
\* and they are those calls' results, each once, in completion order.
C36_ResultConservation ==
    /\ Len(Polled) + Len(jobStore) = Len(doneOrder)
    /\ Polled \o jobStore = doneOrder

\* two calls completed; poll() returned the first result, the second is still
\* stored, and one poll() found the store empty
C36_Witness ==
    /\ Len(doneOrder) = 2
    /\ Len(Polled) = 1
    /\ Len(jobStore) = 1
    /\ \E i \in DOMAIN pollLog : pollLog[i] = <<>>


\* C37: with runAgentLoop calls overlapping, every assistant entry of
\* messageHistory is immediately preceded by the user entry of the same job.
C37_HistoryPairsAdjacent ==
    \A i \in DOMAIN messageHistory :
        messageHistory[i].role = "assistant"
            => /\ i > 1
               /\ messageHistory[i - 1] = UserEntry(messageHistory[i].job)

\* two calls overlapped (the one started second completed first) and each left
\* its user and assistant entries
C37_Witness ==
    /\ Len(doneOrder) = 2
    /\ doneOrder[1].job > doneOrder[2].job
    /\ Len(messageHistory) = 4
    /\ messageHistory[2].role = "assistant"
    /\ messageHistory[4].role = "assistant"


(***************************************************************************)
(* Properties of the promise of connect()                                  *)
(***************************************************************************)
\* C38: the promise of every connect() call is eventually settled, whether
\* the handshake opens, errors or is closed before it opened.
C38_ConnectSettles ==
    \A s \in 1..MaxSockets :
        (s \in Sockets /\ promise[s] = "pending") ~> (s \in Sockets /\ promise[s] # "pending")

\* a connect() whose socket was closed by disconnect() before it opened has
\* been rejected, and another connect() has been resolved by its open event
C38_Witness ==
    /\ \E s \in disconnected : s \notin established /\ promise[s] = "rejected"
    /\ \E s \in established : promise[s] = "resolved"


(***************************************************************************)
(* Properties of the AudioBuffer                                           *)
(***************************************************************************)
\* the non-null arrays add() and flush() have returned, in call order
ReturnedArrays ==
    LET got == SelectSeq(returns, LAMBDA r : r.val # <<>>)
    IN [i \in 1..Len(got) |-> got[i].val[1]]

AddReturns == adds' # adds

\* C39: as long as clear() has not been called, the arrays add() and flush()
\* returned, followed by the chunks still buffered, hold the samples of the
\* chunks passed to add(), in insertion order; and add() returns a combined
\* array exactly when the count of buffered chunks, the new one included,
\* reaches maxChunks.
C39_SamplesConserved ==
    /\ [](clears = 0 => Combined(ReturnedArrays) \o Combined(chunkBuffer) = Combined(adds))
    /\ [](Len(chunkBuffer) = 0 \/ Len(chunkBuffer) < maxChunks)
    /\ [][AddReturns =>
            (returns'[Len(returns')].val # <<>> <=> Len(chunkBuffer) + 1 >= maxChunks)]_vars

\* a buffer of two chunks was filled by add(), which returned the combined
\* array; a later flush() returned a lone chunk, and one chunk is buffered
C39_Witness ==
    /\ clears = 0
    /\ maxChunks = 2
    /\ Len(adds) = 4
    /\ Len(chunkBuffer) = 1
    /\ \E i, j \in DOMAIN returns :
        /\ i < j
        /\ returns[i] = [op |-> "add", val |-> << <<2, 3, 1>> >>]
        /\ returns[j].op = "flush" /\ returns[j].val # <<>>

====
